---- MODULE Spec2Model ----
(***************************************************************************)
(* Verification model of the geodesy core of geocart (js/geodesia.js,      *)
(* script.js, app.js): Vincenty inverse distance, polygon area, perimeter, *)
(* centroid, azimuth and quadrant bearing.                                 *)
(*                                                                         *)
(* JavaScript numbers are IEEE-754 binary floating point.  The model keeps *)
(* that arithmetic (binary mantissa, round to nearest, ties to even, every *)
(* operation rounded once) with a mantissa of Prec bits instead of 53 and  *)
(* an unbounded exponent.  A number is a record [m, e] standing for        *)
(* m * 2^e, with m = 0 (and e = 0) or 2^(Prec-1) <= |m| < 2^Prec.  NaN and  *)
(* the two infinities are records no rounding produces; there is one zero. *)
(***************************************************************************)
EXTENDS Integers, Sequences, FiniteSets, TLC

\* Mantissa width of the modelled floating-point format (53 in the program).
Prec == 11

Pow2(n) == 2 ^ n

IAbs(n) == IF n < 0 THEN -n ELSE n

ISgn(n) == IF n < 0 THEN -1 ELSE IF n = 0 THEN 0 ELSE 1

RECURSIVE BitLen(_)
BitLen(a) == IF a = 0 THEN 0 ELSE 1 + BitLen(a \div 2)

Zero == [m |-> 0, e |-> 0]

\* NaN
NaN == [m |-> 0, e |-> 1]

\* Infinity, above every number in the order of exponents.
Infinity == [m |-> Pow2(Prec - 1), e |-> Pow2(20)]

IsNaN(x) == x = NaN

IsInf(x) == x.e = Infinity.e

\* Infinity with the sign of the integer sg.
InfOf(sg) == [m |-> ISgn(sg) * Infinity.m, e |-> Infinity.e]

\* The rounded mantissa q1 of sign sg: a carry out of p bits renormalises.
RoundCarry(p, sg, e, q1) ==
    IF q1 = Pow2(p) THEN [m |-> sg * Pow2(p - 1), e |-> e + 1]
    ELSE [m |-> sg * q1, e |-> e]

\* Quotient q, remainder r, half of the last place h: nearest, ties to even.
RoundQ(p, sg, e, q, r, h) ==
    RoundCarry(p, sg, e,
               IF r > h \/ (r = h /\ q % 2 = 1) THEN q + 1 ELSE q)

\* n * 2^e with k bits too many (k <= 0: none) for a p-bit mantissa.
RoundAt(p, n, e, k) ==
    IF n = 0 THEN Zero
    ELSE IF k <= 0 THEN [m |-> n * Pow2(-k), e |-> e + k]
    ELSE RoundQ(p, ISgn(n), e + k, IAbs(n) \div Pow2(k), IAbs(n) % Pow2(k),
                Pow2(k - 1))

\* n * 2^e rounded to a p-bit mantissa, round to nearest, ties to even.
RoundTo(p, n, e) == RoundAt(p, n, e, BitLen(IAbs(n)) - p)

Rnd(n, e) == RoundTo(Prec, n, e)

\* An integer literal, or an integer-valued input.
Num(n) == Rnd(n, 0)

\* A decimal literal of the source: n * 2^e truncated, with a sticky bit.
Lit(n, e) == Rnd(2 * n + 1, e - 1)

fNeg(x) == [m |-> -x.m, e |-> x.e]

fAbs(x) == [m |-> IAbs(x.m), e |-> x.e]

\* hi + lo for hi.e >= lo.e.  When the exponents differ by more than
\* Prec + 2, lo is below a quarter of the last place of hi.
fAddOrd(hi, lo) ==
    IF hi.e - lo.e > Prec + 2 THEN hi
    ELSE Rnd(hi.m * Pow2(hi.e - lo.e) + lo.m, lo.e)

\* x + y, rounded once; Infinity - Infinity is NaN.
fAdd(x, y) ==
    IF IsNaN(x) \/ IsNaN(y) THEN NaN
    ELSE IF x.m = 0 THEN y
    ELSE IF y.m = 0 THEN x
    ELSE IF IsInf(x) THEN (IF IsInf(y) /\ x.m # y.m THEN NaN ELSE x)
    ELSE IF IsInf(y) THEN y
    ELSE IF x.e >= y.e THEN fAddOrd(x, y) ELSE fAddOrd(y, x)

fSub(x, y) == fAdd(x, fNeg(y))

\* x * y, rounded once; 0 * Infinity is NaN.
fMul(x, y) ==
    IF IsNaN(x) \/ IsNaN(y) THEN NaN
    ELSE IF IsInf(x) \/ IsInf(y)
    THEN (IF x.m = 0 \/ y.m = 0 THEN NaN ELSE InfOf(x.m * ISgn(y.m)))
    ELSE Rnd(x.m * y.m, x.e + y.e)

fSq(x) == fMul(x, x)

\* a / b > 0 as Prec + 2 quotient bits and a sticky bit.
DivBits(a, b) == 2 * (a \div b) + (IF a % b = 0 THEN 0 ELSE 1)

\* x / y, rounded once; 0 / 0 and Infinity / Infinity are NaN, any other
\* number over 0 is an infinity.
fDiv(x, y) ==
    IF IsNaN(x) \/ IsNaN(y) THEN NaN
    ELSE IF IsInf(x) THEN (IF IsInf(y) THEN NaN ELSE InfOf(x.m * ISgn(y.m)))
    ELSE IF IsInf(y) THEN Zero
    ELSE IF y.m = 0 THEN (IF x.m = 0 THEN NaN ELSE InfOf(x.m))
    ELSE Rnd(ISgn(x.m) * ISgn(y.m)
               * DivBits(IAbs(x.m) * Pow2(Prec + 2), IAbs(y.m)),
             x.e - y.e - Prec - 3)

RECURSIVE ISqrtFrom(_, _)
ISqrtFrom(n, g) ==
    IF (g + n \div g) \div 2 >= g THEN g
    ELSE ISqrtFrom(n, (g + n \div g) \div 2)

\* Floor of the square root of n >= 0 (Newton's iteration from above).
ISqrt(n) == IF n < 2 THEN n ELSE ISqrtFrom(n, Pow2((BitLen(n) + 1) \div 2))

\* Root s of n and a sticky bit.
SqrtBits(n, s) == 2 * s + (IF s * s = n THEN 0 ELSE 1)

\* The square root of m * 2^e shifted left by sh bits (e - sh even).
SqrtShifted(m, e, sh) ==
    Rnd(SqrtBits(m * Pow2(sh), ISqrt(m * Pow2(sh))), ((e - sh) \div 2) - 1)

\* Math.sqrt(x), rounded once; NaN below 0.
fSqrt(x) ==
    IF x.m < 0 THEN NaN
    ELSE IF x.m = 0 \/ IsInf(x) THEN x
    ELSE SqrtShifted(x.m, x.e,
                     IF (x.e - Prec - 2) % 2 = 0 THEN Prec + 2 ELSE Prec + 3)

\* Exact order of two numbers (normalised, so sign, exponent, mantissa);
\* NaN is in no order with anything.
fLt(x, y) ==
    IF IsNaN(x) \/ IsNaN(y) THEN FALSE
    ELSE IF x.m <= 0 /\ y.m > 0 THEN x.m < y.m
    ELSE IF x.m < 0 /\ y.m = 0 THEN TRUE
    ELSE IF x.m >= 0 /\ y.m <= 0 THEN FALSE
    ELSE IF x.m > 0 THEN x.e < y.e \/ (x.e = y.e /\ x.m < y.m)
    ELSE x.e > y.e \/ (x.e = y.e /\ x.m < y.m)

fLe(x, y) == (x = y /\ ~IsNaN(x)) \/ fLt(x, y)

(***************************************************************************)
(* Math.sin, Math.cos, Math.tan, Math.atan2.  The library functions are    *)
(* evaluated in fixed point with 26 fraction bits (range reduction by      *)
(* pi/2, Taylor polynomials) and the value is rounded to the format; an    *)
(* argument too small to change the last place takes the limit value       *)
(* (sin x = x, cos x = 1, atan t = t), as the library does.                *)
(***************************************************************************)
FxOne == Pow2(26)

\* pi/2, pi, pi/4 and tan(pi/8) with 26 fraction bits.
FxHalfPi == 105414357

FxPi == 210828714

FxQuarterPi == 52707179

FxTanPi8 == 27797402

\* Product of two non-negative fixed-point values below 4, by 13-bit limbs.
FxMulLimbs(ah, al, bh, bl) ==
    ah * bh + (ah * bl + al * bh) \div 8192 + (al * bl) \div FxOne

FxMulAbs(a, b) == FxMulLimbs(a \div 8192, a % 8192, b \div 8192, b % 8192)

FxMul(a, b) == ISgn(a) * ISgn(b) * FxMulAbs(IAbs(a), IAbs(b))

RECURSIVE FxDivRec(_, _, _, _)
FxDivRec(rem, b, q, n) ==
    IF n = 0 THEN q
    ELSE FxDivRec((rem * 4) % b, b, q * 4 + (rem * 4) \div b, n - 1)

\* a / b for 0 <= a <= b, long division two bits at a time.
FxDiv(a, b) == FxDivRec(a % b, b, a \div b, 13)

\* One Horner step of an alternating series: c - z * s.
FxStep(c, z, s) == c - FxMul(z, s)

\* sin r = r (1 - z/6 (1 - z/20 (1 - z/42 (1 - z/72)))) with z = r^2.
FxSinZ(r, z) ==
    FxMul(r,
          FxOne - FxMul(z,
          FxOne - FxMul(z,
          FxOne - FxMul(z,
          FxOne - z \div 72) \div 42) \div 20) \div 6)

\* cos r = 1 - z/2 (1 - z/12 (1 - z/30 (1 - z/56 (1 - z/90)))).
FxCosZ(z) ==
    FxOne - FxMul(z,
    FxOne - FxMul(z,
    FxOne - FxMul(z,
    FxOne - FxMul(z,
    FxOne - z \div 90) \div 56) \div 30) \div 12) \div 2

\* atan u = u (1 - z/3 + z^2/5 - ... - z^9/19) with z = u^2.
FxAtanZ(u, z) ==
    FxMul(u,
      FxStep(FxOne, z, FxStep(FxOne \div 3, z, FxStep(FxOne \div 5, z,
      FxStep(FxOne \div 7, z, FxStep(FxOne \div 9, z, FxStep(FxOne \div 11, z,
      FxStep(FxOne \div 13, z, FxStep(FxOne \div 15, z,
      FxStep(FxOne \div 17, z, FxOne \div 19))))))))))

\* atan u for 0 <= u <= tan(pi/8).
FxAtanSeries(u) == FxAtanZ(u, FxMul(u, u))

\* atan t for 0 <= t <= 1: atan t = pi/4 - atan((1 - t)/(1 + t)) above tan(pi/8).
FxAtan(t) ==
    IF t > FxTanPi8
    THEN FxQuarterPi - FxAtanSeries(FxDiv(FxOne - t, FxOne + t))
    ELSE FxAtanSeries(t)

\* The value of a number of magnitude below 16 with 26 fraction bits.
ToFx(x) ==
    IF x.e + 26 >= 0 THEN x.m * Pow2(x.e + 26)
    ELSE IF x.e + 26 < -30 THEN 0
    ELSE ISgn(x.m) * (IAbs(x.m) \div Pow2(-(x.e + 26)))

\* |x| < 2^-(Prec/2): x^2 is below the last place of 1.
TinyArg(x) == x.e + Prec <= -((Prec + 1) \div 2)

\* sin (j even) or cos (j odd) of the reduced angle r, negated for j = 2, 3.
FxQuadrant(r, j) ==
    (IF j < 2 THEN 1 ELSE -1)
      * (IF j % 2 = 0 THEN FxSinZ(r, FxMul(r, r)) ELSE FxCosZ(FxMul(r, r)))

\* k quarter turns taken off the angle X; which = 0 for sin, 1 for cos.
FxReduced(X, k, which) == FxQuadrant(X - k * FxHalfPi, (k + which) % 4)

FxSinCos(X, which) ==
    FxReduced(X, (2 * X + FxHalfPi) \div (2 * FxHalfPi), which)

\* Math.sin(x)
fSin(x) ==
    IF IsNaN(x) \/ IsInf(x) THEN NaN
    ELSE IF x.m = 0 \/ TinyArg(x) THEN x
    ELSE Rnd(ISgn(x.m) * FxSinCos(ToFx(fAbs(x)), 0), -26)

\* Math.cos(x)
fCos(x) ==
    IF IsNaN(x) \/ IsInf(x) THEN NaN
    ELSE IF x.m = 0 \/ TinyArg(x) THEN Num(1)
    ELSE Rnd(FxSinCos(ToFx(fAbs(x)), 1), -26)

\* Math.tan(x)
fTan(x) == fDiv(fSin(x), fCos(x))

\* The ratio q * 2^s (at most 1) with 26 fraction bits.
FxRatio(q, s) ==
    IF s >= 0 THEN q * Pow2(s) ELSE IF s < -30 THEN 0 ELSE q \div Pow2(-s)

\* The angle of (x, y) in the first quadrant from a = atan(min/max).
FxAngle(a, swap, xneg) ==
    IF xneg THEN FxPi - (IF swap THEN FxHalfPi - a ELSE a)
    ELSE (IF swap THEN FxHalfPi - a ELSE a)

\* atan2 of y, x (both non-zero) with num/den = min(|y|,|x|)/max(|y|,|x|).
Atan2Of(y, x, num, den, swap) ==
    IF ~swap /\ x.m > 0 /\ TinyArg(fDiv(num, den)) THEN fDiv(y, x)
    ELSE Rnd(ISgn(y.m)
               * FxAngle(FxAtan(FxRatio((num.m * Pow2(30 - Prec)) \div den.m,
                                        num.e - den.e + Prec - 4)),
                         swap, x.m < 0),
             -26)

\* Math.atan2(y, x)
fAtan2(y, x) ==
    IF y.m = 0 THEN (IF x.m < 0 THEN Rnd(FxPi, -26) ELSE Zero)
    ELSE IF x.m = 0 THEN Rnd(ISgn(y.m) * FxHalfPi, -26)
    ELSE IF fLt(fAbs(x), fAbs(y)) THEN Atan2Of(y, x, fAbs(x), fAbs(y), TRUE)
    ELSE Atan2Of(y, x, fAbs(y), fAbs(x), FALSE)

\* Math.PI
MathPI == Rnd(FxPi, -26)

(***************************************************************************)
(* WGS84 ellipsoid and angle conversion.                                   *)
(***************************************************************************)
\* a: 6378137.0
WGS84_a == Num(6378137)

\* b: 6356752.314245
WGS84_b == Lit(813664296, -7)

\* f: 1 / 298.257223563
WGS84_f == fDiv(Num(1), Lit(625490732, -21))

toRadians(deg) == fDiv(fMul(deg, MathPI), Num(180))

toDegrees(rad) == fDiv(fMul(rad, Num(180)), MathPI)

(***************************************************************************)
(* vincentyDistance.  The locals of one call are a record, each statement  *)
(* of the source an update of it: VSetup is the code before the do-while,  *)
(* VSinSigma to VNewLambda one pass of its body, VAfterPass its condition, *)
(* VFinal the code after the loop.                                         *)
(***************************************************************************)
\* let iterLimit = 100
IterLimit0 == 100

\* The convergence threshold 1e-12.
Tolerance == Lit(1152921, -60)

\* cosU = 1 / sqrt(1 + tanU * tanU); sinU = tanU * cosU
ReducedPair(tanU, cosU) == [cos |-> cosU, sin |-> fMul(tanU, cosU)]

ReducedFromTan(tanU) ==
    ReducedPair(tanU, fDiv(Num(1), fSqrt(fAdd(Num(1), fMul(tanU, tanU)))))

\* tanU = (1 - f) * tan(phi)
ReducedLat(phi) == ReducedFromTan(fMul(fSub(Num(1), WGS84_f), fTan(phi)))

VLocals(U1, U2, L) ==
    [L |-> L, cosU1 |-> U1.cos, sinU1 |-> U1.sin,
     cosU2 |-> U2.cos, sinU2 |-> U2.sin,
     lam |-> L, lamPrev |-> Zero, iterLimit |-> IterLimit0,
     sinLam |-> Zero, cosLam |-> Zero,
     sinSig |-> Zero, cosSig |-> Zero, sig |-> Zero,
     sinAlpha |-> Zero, cos2Alpha |-> Zero, cos2SigM |-> Zero, C |-> Zero]

\* Fault: L taken from lon2 alone.
VSetupWithoutLon1(lat1, lon1, lat2, lon2) ==
    VLocals(ReducedLat(toRadians(lat1)), ReducedLat(toRadians(lat2)),
            toRadians(lon2))

VSetup(lat1, lon1, lat2, lon2) ==
    VLocals(ReducedLat(toRadians(lat1)), ReducedLat(toRadians(lat2)),
            toRadians(fSub(lon2, lon1)))

\* sinλ = Math.sin(λ), cosλ = Math.cos(λ)
VTrig(s) == [s EXCEPT !.sinLam = fSin(s.lam), !.cosLam = fCos(s.lam)]

\* Fault: sinσ with the second term's difference turned into a sum.
VSinSigmaSum(s) ==
    [s EXCEPT !.sinSig =
        fSqrt(fAdd(fSq(fMul(s.cosU2, s.sinLam)),
                   fSq(fAdd(fMul(s.cosU1, s.sinU2),
                            fMul(fMul(s.sinU1, s.cosU2), s.cosLam)))))]

\* sinσ = sqrt((cosU2 sinλ)^2 + (cosU1 sinU2 - sinU1 cosU2 cosλ)^2)
VSinSigma(s) ==
    [s EXCEPT !.sinSig =
        fSqrt(fAdd(fSq(fMul(s.cosU2, s.sinLam)),
                   fSq(fSub(fMul(s.cosU1, s.sinU2),
                            fMul(fMul(s.sinU1, s.cosU2), s.cosLam)))))]

\* cosσ = sinU1 sinU2 + cosU1 cosU2 cosλ
VCosSigma(s) ==
    [s EXCEPT !.cosSig =
        fAdd(fMul(s.sinU1, s.sinU2), fMul(fMul(s.cosU1, s.cosU2), s.cosLam))]

\* σ = atan2(sinσ, cosσ)
VSigma(s) == [s EXCEPT !.sig = fAtan2(s.sinSig, s.cosSig)]

\* sinα = cosU1 cosU2 sinλ / sinσ
VSinAlpha(s) ==
    [s EXCEPT !.sinAlpha =
        fDiv(fMul(fMul(s.cosU1, s.cosU2), s.sinLam), s.sinSig)]

\* cos2α = 1 - sinα^2
VCos2Alpha(s) == [s EXCEPT !.cos2Alpha = fSub(Num(1), fSq(s.sinAlpha))]

\* cos2σm = cos2α !== 0 ? cosσ - 2 sinU1 sinU2 / cos2α : 0
VCos2SigM(s) ==
    [s EXCEPT !.cos2SigM =
        IF s.cos2Alpha # Zero
        THEN fSub(s.cosSig,
                  fDiv(fMul(fMul(Num(2), s.sinU1), s.sinU2), s.cos2Alpha))
        ELSE Zero]

\* C = f / 16 * cos2α * (4 + f * (4 - 3 * cos2α))
VC(s) ==
    [s EXCEPT !.C =
        fMul(fMul(fDiv(WGS84_f, Num(16)), s.cos2Alpha),
             fAdd(Num(4),
                  fMul(WGS84_f, fSub(Num(4), fMul(Num(3), s.cos2Alpha)))))]

\* λʹ = λ; λ = L + (1 - C) f sinα (σ + C sinσ (cos2σm + C cosσ (-1 + 2 cos2σm^2)))
VNewLambda(s) ==
    [s EXCEPT !.lamPrev = s.lam,
              !.lam =
        fAdd(s.L,
             fMul(fMul(fMul(fSub(Num(1), s.C), WGS84_f), s.sinAlpha),
                  fAdd(s.sig,
                       fMul(fMul(s.C, s.sinSig),
                            fAdd(s.cos2SigM,
                                 fMul(fMul(s.C, s.cosSig),
                                      fAdd(Num(-1),
                                           fMul(Num(2),
                                                fSq(s.cos2SigM)))))))))]

\* The first statements of a pass, up to the test "sinσ === 0".
VHead(s) == VSinSigma(VTrig(s))

\* The rest of the pass, after "if (sinσ === 0) return 0".
VBody(s) ==
    VNewLambda(VC(VCos2SigM(VCos2Alpha(VSinAlpha(VSigma(VCosSigma(s)))))))

\* Math.abs(λ - λʹ) > 1e-12
VNotConverged(s) == fLt(Tolerance, fAbs(fSub(s.lam, s.lamPrev)))

\* Fault: the loop condition written with iterLimit-- instead of --iterLimit.
VAfterPassPostDecrement(t) ==
    IF VNotConverged(t)
    THEN [loc |-> [t EXCEPT !.iterLimit = @ - 1], again |-> t.iterLimit > 0]
    ELSE [loc |-> t, again |-> FALSE]

\* The loop condition after a pass: the next locals and whether to go on.
\* --iterLimit is evaluated only when the pass has not converged.
VAfterPass(t) ==
    IF VNotConverged(t)
    THEN [loc |-> [t EXCEPT !.iterLimit = @ - 1], again |-> t.iterLimit - 1 > 0]
    ELSE [loc |-> t, again |-> FALSE]

\* u2 = cos2α (a^2 - b^2) / b^2
VU2(s) ==
    fDiv(fMul(s.cos2Alpha, fSub(fSq(WGS84_a), fSq(WGS84_b))), fSq(WGS84_b))

\* A = 1 + u2 / 16384 (4096 + u2 (-768 + u2 (320 - 175 u2)))
VCoefA(u2) ==
    fAdd(Num(1),
         fMul(fDiv(u2, Num(16384)),
              fAdd(Num(4096),
                   fMul(u2,
                        fAdd(Num(-768),
                             fMul(u2, fSub(Num(320), fMul(Num(175), u2))))))))

\* B = u2 / 1024 (256 + u2 (-128 + u2 (74 - 47 u2)))
VCoefB(u2) ==
    fMul(fDiv(u2, Num(1024)),
         fAdd(Num(256),
              fMul(u2,
                   fAdd(Num(-128),
                        fMul(u2, fSub(Num(74), fMul(Num(47), u2)))))))

\* Δσ = B sinσ (cos2σm + B/4 (cosσ (-1 + 2 cos2σm^2)
\*        - B/6 cos2σm (-3 + 4 sinσ^2) (-3 + 4 cos2σm^2)))
VDeltaSigma(s, B) ==
    fMul(fMul(B, s.sinSig),
         fAdd(s.cos2SigM,
              fMul(fDiv(B, Num(4)),
                   fSub(fMul(s.cosSig,
                             fAdd(Num(-1), fMul(Num(2), fSq(s.cos2SigM)))),
                        fMul(fMul(fMul(fDiv(B, Num(6)), s.cos2SigM),
                                  fAdd(Num(-3), fMul(Num(4), fSq(s.sinSig)))),
                             fAdd(Num(-3),
                                  fMul(Num(4), fSq(s.cos2SigM))))))))

\* return b * A * (σ - Δσ)
VDistance(s, u2) ==
    fMul(fMul(WGS84_b, VCoefA(u2)), fSub(s.sig, VDeltaSigma(s, VCoefB(u2))))

\* b * A * (σ - Δσ) with u2 from the locals.
VFinalOf(s) == VDistance(s, VU2(s))

\* Fault: the code after the loop recomputing σ from the λ the last pass left.
VFinalFromLastLambda(s) ==
    VFinalOf(VC(VCos2SigM(VCos2Alpha(VSinAlpha(VSigma(VCosSigma(VHead(s))))))))

\* The code after the loop.
VFinal(s) == VFinalOf(s)

\* The do-while from the head s of a pass to the value returned.
RECURSIVE VLoop(_)
VLoopNext(r) == IF r.again THEN VLoop(VHead(r.loc)) ELSE VFinal(r.loc)

VLoop(s) == IF s.sinSig = Zero THEN Zero ELSE VLoopNext(VAfterPass(VBody(s)))

\* vincentyDistance(lat1, lon1, lat2, lon2) as a function.
vincentyDistance(lat1, lon1, lat2, lon2) ==
    VLoop(VHead(VSetup(lat1, lon1, lat2, lon2)))


(***************************************************************************)
(* Math.floor, Math.round, Math.max, Math.min, Math.atan, Math.log,        *)
(* Math.exp and the ** operator.                                           *)
(***************************************************************************)
\* The floor of n / d for d > 0.
FloorDiv(n, d) == IF n >= 0 THEN n \div d ELSE -((-n + d - 1) \div d)

\* n * 2^e with n odd (or 0): a number written with all its bits.
RECURSIVE Odd(_, _)
Odd(n, e) ==
    IF n = 0 THEN Zero
    ELSE IF n % 2 = 0 THEN Odd(n \div 2, e + 1)
    ELSE [m |-> n, e |-> e]

\* The number n * 2^e itself, unrounded: in the format of the rounded
\* numbers when Prec bits hold it, with all its bits otherwise.  It stands
\* for the result of an operation that is exact in the program because the
\* result has few bits (the integers of the model stay below 2^31, the
\* program's mantissa holds 53 bits).
Exact(n, e) ==
    IF BitLen(IAbs(Odd(n, e).m)) <= Prec THEN Rnd(n, e) ELSE Odd(n, e)

\* x - y and x * y for operands of so few bits that the result is exact.
xSub(x, y) ==
    IF x.e <= y.e THEN Exact(x.m - y.m * Pow2(y.e - x.e), x.e)
    ELSE Exact(x.m * Pow2(x.e - y.e) - y.m, y.e)

xMul(x, y) ==
    Exact(Odd(x.m, x.e).m * Odd(y.m, y.e).m, Odd(x.m, x.e).e + Odd(y.m, y.e).e)

\* Math.floor(x)
fFloor(x) ==
    IF x.e >= 0 \/ IsNaN(x) THEN x
    ELSE IF -x.e > 30 THEN (IF x.m < 0 THEN Num(-1) ELSE Zero)
    ELSE Exact(FloorDiv(x.m, Pow2(-x.e)), 0)

\* Math.round(x): the nearest integer, the larger one of two equally near.
fRound(x) ==
    IF x.e >= 0 \/ IsNaN(x) THEN x
    ELSE IF -x.e > 30 THEN Zero
    ELSE Num(FloorDiv(x.m + Pow2(-x.e - 1), Pow2(-x.e)))

\* Math.max(x, y)
fMax(x, y) == IF IsNaN(x) \/ IsNaN(y) THEN NaN ELSE IF fLt(x, y) THEN y ELSE x

\* Math.min(x, y)
fMin(x, y) == IF IsNaN(x) \/ IsNaN(y) THEN NaN ELSE IF fLt(y, x) THEN y ELSE x

\* Math.atan(x)
fAtan(x) ==
    IF IsNaN(x) THEN NaN
    ELSE IF IsInf(x) THEN Rnd(ISgn(x.m) * FxHalfPi, -26)
    ELSE fAtan2(x, Num(1))

\* The running power w times x, kept to four bits more than the format.
RECURSIVE PowWide(_, _, _)
PowWide(w, x, n) ==
    IF n = 1 THEN w
    ELSE PowWide(RoundTo(Prec + 4, w.m * x.m, w.e + x.e), x, n - 1)

Narrow(w) == Rnd(w.m, w.e)

\* x ** n for an integer n >= 2: the library's power, rounded to the format.
fPow(x, n) ==
    IF IsNaN(x) THEN NaN
    ELSE IF IsInf(x) THEN (IF n % 2 = 0 THEN Infinity ELSE x)
    ELSE IF x.m = 0 THEN Zero
    ELSE Narrow(PowWide(x, x, n))

\* ln 2 with 26 fraction bits.
FxLn2 == 46516320

\* 2 atanh u = 2 u (1 + z/3 + z^2/5 + ... + z^7/15) with z = u^2 <= 1/9.
FxLnZ(u, z) ==
    2 * FxMul(u,
          FxOne + FxMul(z, FxOne \div 3 + FxMul(z, FxOne \div 5
          + FxMul(z, FxOne \div 7 + FxMul(z, FxOne \div 9
          + FxMul(z, FxOne \div 11 + FxMul(z, FxOne \div 13
          + FxMul(z, FxOne \div 15))))))))

FxLnU(u) == FxLnZ(u, FxMul(u, u))

\* ln t for the fixed-point t in [1, 2): 2 atanh((t - 1)/(t + 1)).
FxLn(t) == FxLnU(FxDiv(t - FxOne, t + FxOne))

\* Math.log(x)
fLog(x) ==
    IF IsNaN(x) \/ x.m < 0 THEN NaN
    ELSE IF x.m = 0 THEN InfOf(-1)
    ELSE IF IsInf(x) THEN x
    ELSE Rnd((x.e + Prec - 1) * FxLn2 + FxLn(x.m * Pow2(27 - Prec)), -26)

\* e^r = 1 + r (1 + r/2 (1 + r/3 ( ... (1 + r/10)))) for |r| <= ln(2)/2.
FxExpR(r) ==
    FxOne + FxMul(r, FxOne + FxMul(r, FxOne + FxMul(r, FxOne + FxMul(r,
    FxOne + FxMul(r, FxOne + FxMul(r, FxOne + FxMul(r, FxOne + FxMul(r,
    FxOne + FxMul(r, FxOne + r \div 10) \div 9) \div 8) \div 7) \div 6)
    \div 5) \div 4) \div 3) \div 2)

\* e^X as 2^k e^r with k the multiple of ln 2 nearest to X.
FxExpSplit(X, k) == Rnd(FxExpR(X - k * FxLn2), k - 26)

\* Math.exp(x) for |x| < 16
fExp(x) ==
    IF IsNaN(x) THEN NaN
    ELSE IF IsInf(x) THEN (IF x.m < 0 THEN Zero ELSE x)
    ELSE IF x.m = 0 \/ x.e + Prec < -Prec THEN Num(1)
    ELSE FxExpSplit(ToFx(x), FloorDiv(2 * ToFx(x) + FxLn2, 2 * FxLn2))

\* x <= y for finite x and y, decided exactly.
xLe(x, y) == xSub(x, y).m <= 0
(***************************************************************************)
(* Whole numbers of any size, for the values that have to be compared      *)
(* digit by digit: a sequence of digits to the base 1000, the lowest       *)
(* first, without zeros at the top; <<>> is 0.                             *)
(***************************************************************************)
RECURSIVE BigTrim(_)
BigTrim(x) ==
    IF x = <<>> THEN <<>>
    ELSE IF x[Len(x)] = 0 THEN BigTrim(SubSeq(x, 1, Len(x) - 1))
    ELSE x

\* The number whose digits, not yet below 1000, are x, plus c.
RECURSIVE BigCarry(_, _)
BigCarry(x, c) ==
    IF x = <<>>
    THEN IF c = 0 THEN <<>> ELSE <<c % 1000>> \o BigCarry(<<>>, c \div 1000)
    ELSE <<(x[1] + c) % 1000>> \o BigCarry(Tail(x), (x[1] + c) \div 1000)

\* The number written in groups of three decimal digits, the highest first.
Big(groups) ==
    BigTrim([i \in 1..Len(groups) |-> groups[Len(groups) + 1 - i]])

BigDigit(x, i) == IF i \in 1..Len(x) THEN x[i] ELSE 0

BigAdd(x, y) ==
    BigCarry([i \in 1..(IF Len(x) > Len(y) THEN Len(x) ELSE Len(y)) |->
                  BigDigit(x, i) + BigDigit(y, i)], 0)

\* x times the small number n.
BigTimes(x, n) == BigTrim(BigCarry([i \in 1..Len(x) |-> x[i] * n], 0))

RECURSIVE BigColumn(_, _, _, _)
BigColumn(x, y, k, i) ==
    IF i > Len(x) THEN 0
    ELSE x[i] * BigDigit(y, k + 1 - i) + BigColumn(x, y, k, i + 1)

BigMul(x, y) ==
    IF x = <<>> \/ y = <<>> THEN <<>>
    ELSE BigTrim(BigCarry([k \in 1..(Len(x) + Len(y) - 1) |->
                               BigColumn(x, y, k, 1)], 0))

RECURSIVE BigLeFrom(_, _, _)
BigLeFrom(x, y, i) ==
    IF i = 0 THEN TRUE
    ELSE IF x[i] # y[i] THEN x[i] < y[i]
    ELSE BigLeFrom(x, y, i - 1)

BigLe(x, y) ==
    IF Len(x) # Len(y) THEN Len(x) < Len(y) ELSE BigLeFrom(x, y, Len(x))

\* x - y for y <= x, with the borrow c.
RECURSIVE BigBorrow(_, _, _, _)
BigBorrow(x, y, i, c) ==
    IF i > Len(x) THEN <<>>
    ELSE IF x[i] - BigDigit(y, i) - c < 0
    THEN <<x[i] - BigDigit(y, i) - c + 1000>> \o BigBorrow(x, y, i + 1, 1)
    ELSE <<x[i] - BigDigit(y, i) - c>> \o BigBorrow(x, y, i + 1, 0)

\* |x - y|
BigDiff(x, y) ==
    IF BigLe(y, x) THEN BigTrim(BigBorrow(x, y, 1, 0))
    ELSE BigTrim(BigBorrow(y, x, 1, 0))

BigSquare(x) == BigMul(x, x)

\* The small number n to the power k.
RECURSIVE BigPow(_, _)
BigPow(n, k) ==
    IF k = 0 THEN <<1>>
    ELSE IF k % 2 = 0 THEN BigSquare(BigPow(n, k \div 2))
    ELSE BigTimes(BigPow(n, k - 1), n)

(***************************************************************************)
(* calculateGeodesicArea, calculatePerimeter and calculateCentroid.  A     *)
(* point list is a sequence of records [lat, lon]; pts[i] of the code,     *)
(* which counts from 0, is the element i + 1 here.                         *)
(***************************************************************************)
At(pts, i) == pts[i + 1]

\* if (pts.length < 3) return 0
AreaDegenerate(pts) == Len(pts) < 3

\* j = (i + 1) % n
AreaJ(i, n) == (i + 1) % n

\* dLon * (2 + Math.sin(lat1) + Math.sin(lat2))
AreaTerm(dLon, lat1, lat2) ==
    fMul(dLon, fAdd(fAdd(Num(2), fSin(lat1)), fSin(lat2)))

\* The term of the edge from p to q.
AreaEdge(p, q) ==
    AreaTerm(toRadians(fSub(q.lon, p.lon)), toRadians(p.lat), toRadians(q.lat))

\* One pass of the loop: area += the term of the edge pts[i] -> pts[j].
AreaPass(area, pts, i) ==
    fAdd(area, AreaEdge(At(pts, i), At(pts, AreaJ(i, Len(pts)))))

\* Fault: the result without Math.abs.
AreaResultSigned(area) == fDiv(fMul(fMul(area, WGS84_a), WGS84_a), Num(2))

\* return Math.abs(area * WGS84.a * WGS84.a / 2)
AreaResult(area) == fAbs(fDiv(fMul(fMul(area, WGS84_a), WGS84_a), Num(2)))

RECURSIVE AreaLoop(_, _, _)
AreaLoop(area, pts, i) ==
    IF i < Len(pts) THEN AreaLoop(AreaPass(area, pts, i), pts, i + 1)
    ELSE AreaResult(area)

\* calculateGeodesicArea(pts) as a function.
calculateGeodesicArea(pts) ==
    IF AreaDegenerate(pts) THEN Zero ELSE AreaLoop(Zero, pts, 0)

\* Fault: the perimeter's guard letting a single point through.
PerimeterDegenerateBelow1(pts) == Len(pts) < 1

\* if (pts.length < 2) return 0
PerimeterDegenerate(pts) == Len(pts) < 2

\* Fault: the next index without the wrap to the first point.
PerimeterJNoWrap(i, n) == IF i + 1 < n THEN i + 1 ELSE i

\* j = (i + 1) % pts.length
PerimeterJ(i, n) == (i + 1) % n

\* vincentyDistance(pts[i].lat, pts[i].lon, pts[j].lat, pts[j].lon)
EdgeDistance(p, q) == vincentyDistance(p.lat, p.lon, q.lat, q.lon)

\* One pass of the loop: perimeter += the distance pts[i] -> pts[j].
PerimeterPass(perimeter, pts, i) ==
    fAdd(perimeter, EdgeDistance(At(pts, i), At(pts, PerimeterJ(i, Len(pts)))))

RECURSIVE PerimeterLoop(_, _, _)
PerimeterLoop(perimeter, pts, i) ==
    IF i < Len(pts) THEN PerimeterLoop(PerimeterPass(perimeter, pts, i), pts, i + 1)
    ELSE perimeter

\* calculatePerimeter(pts) as a function.
calculatePerimeter(pts) ==
    IF PerimeterDegenerate(pts) THEN Zero ELSE PerimeterLoop(Zero, pts, 0)

\* if (pts.length === 0) return { lat: 0, lon: 0 }
CentroidEmpty(pts) == Len(pts) = 0

\* One call of the forEach callback: sumLat += p.lat; sumLon += p.lon.
CentroidPass(sums, p) ==
    [sumLat |-> fAdd(sums.sumLat, p.lat), sumLon |-> fAdd(sums.sumLon, p.lon)]

\* Fault: the sums divided by one more than the number of points.
CentroidResultOffByOne(sums, n) ==
    [lat |-> fDiv(sums.sumLat, Num(n + 1)), lon |-> fDiv(sums.sumLon, Num(n + 1))]

\* return { lat: sumLat / pts.length, lon: sumLon / pts.length }
CentroidResult(sums, n) ==
    [lat |-> fDiv(sums.sumLat, Num(n)), lon |-> fDiv(sums.sumLon, Num(n))]

RECURSIVE CentroidLoop(_, _, _)
CentroidLoop(sums, pts, i) ==
    IF i < Len(pts) THEN CentroidLoop(CentroidPass(sums, At(pts, i)), pts, i + 1)
    ELSE CentroidResult(sums, Len(pts))

\* calculateCentroid(pts) as a function.
calculateCentroid(pts) ==
    IF CentroidEmpty(pts) THEN [lat |-> Zero, lon |-> Zero]
    ELSE CentroidLoop([sumLat |-> Zero, sumLon |-> Zero], pts, 0)

(***************************************************************************)
(* calculateAzimuth and azimuthToRumbo.                                    *)
(***************************************************************************)

\* y = Math.sin(Δλ) * Math.cos(φ2)
AzimuthY(dLam, phi2) == fMul(fSin(dLam), fCos(phi2))

\* x = Math.cos(φ1) * Math.sin(φ2) - Math.sin(φ1) * Math.cos(φ2) * Math.cos(Δλ)
AzimuthX(phi1, phi2, dLam) ==
    fSub(fMul(fCos(phi1), fSin(phi2)),
         fMul(fMul(fSin(phi1), fCos(phi2)), fCos(dLam)))

\* toDegrees(Math.atan2(y, x))
AzimuthRaw(phi1, phi2, dLam) ==
    toDegrees(fAtan2(AzimuthY(dLam, phi2), AzimuthX(phi1, phi2, dLam)))

\* if (azimuth < 0) azimuth += 360
AzimuthWrap(azimuth) ==
    IF fLt(azimuth, Zero) THEN fAdd(azimuth, Num(360)) ELSE azimuth

\* calculateAzimuth(lat1, lon1, lat2, lon2) as a function.
calculateAzimuth(lat1, lon1, lat2, lon2) ==
    AzimuthWrap(AzimuthRaw(toRadians(lat1), toRadians(lat2),
                           toRadians(fSub(lon2, lon1))))

\* The integer n nearest to 100 * m * 2^e for m >= 0, the larger one of two
\* equally near (Number.prototype.toFixed step "pick the larger n").
Hundredths(m, e) ==
    IF e >= 0 THEN m * Pow2(e) * 100
    ELSE IF -e > 2 * Prec + 7 THEN 0
    ELSE (m * 200 + Pow2(-e)) \div Pow2(1 - e)

\* x.toFixed(2): the sign and the digits as a number of hundredths.
toFixed2(x) == [minus |-> x.m < 0, hundredths |-> Hundredths(IAbs(x.m), x.e)]

\* Fault: the first test with the right end closed.
InNEClosed(azimuth) == fLe(Zero, azimuth) /\ fLe(azimuth, Num(90))

\* azimuth >= 0 && azimuth < 90
InNE(azimuth) == fLe(Zero, azimuth) /\ fLt(azimuth, Num(90))

\* azimuth >= 90 && azimuth < 180
InSE(azimuth) == fLe(Num(90), azimuth) /\ fLt(azimuth, Num(180))

\* azimuth >= 180 && azimuth < 270
InSW(azimuth) == fLe(Num(180), azimuth) /\ fLt(azimuth, Num(270))

\* azimuthToRumbo(azimuth) as a function.
azimuthToRumbo(azimuth) ==
    IF InNE(azimuth)
    THEN [quadrant |-> "NE", angle |-> toFixed2(azimuth)]
    ELSE IF InSE(azimuth)
    THEN [quadrant |-> "SE", angle |-> toFixed2(fSub(Num(180), azimuth))]
    ELSE IF InSW(azimuth)
    THEN [quadrant |-> "SW", angle |-> toFixed2(fSub(azimuth, Num(180)))]
    ELSE [quadrant |-> "NW", angle |-> toFixed2(fSub(Num(360), azimuth))]


(***************************************************************************)
(* latLonToUTM.  The locals of one call are a record: UtmSetup is the zone *)
(* and the angles in radians, UtmTerms the terms N, T, C, A and M of the   *)
(* series, UtmResult the easting, the northing and the returned object.    *)
(***************************************************************************)
\* e2: 0.00669437999014
WGS84_e2 == Lit(460034289, -36)

\* ep2: 0.00673949674228
WGS84_ep2 == Lit(463134689, -36)

\* const k0 = 0.9996
UtmK0 == Lit(536656163, -29)

\* The false easting 500000 and the false northing 10000000.
FalseEasting == Num(500000)

FalseNorthing == Num(10000000)

\* zone = Math.floor((lon + 180) / 6) + 1
UtmZone(lon) == fAdd(fFloor(fDiv(fAdd(lon, Num(180)), Num(6))), Num(1))

\* Fault: the western edge of the zone taken for its central meridian.
UtmLonOriginEdge(zone) ==
    fSub(fMul(fSub(zone, Num(1)), Num(6)), Num(180))

\* lonOrigin = (zone - 1) * 6 - 180 + 3
UtmLonOrigin(zone) ==
    fAdd(fSub(fMul(fSub(zone, Num(1)), Num(6)), Num(180)), Num(3))

UtmLocals(zone, lonOrigin, latRad, lonRad) ==
    [zone |-> zone, lonOrigin |-> lonOrigin,
     latRad |-> latRad, lonRad |-> lonRad, lonOriginRad |-> toRadians(lonOrigin),
     N |-> Zero, T |-> Zero, C |-> Zero, A |-> Zero, M |-> Zero,
     easting |-> Zero, northing0 |-> Zero, northing |-> Zero, added |-> FALSE]

UtmSetupFrom(lat, lon, zone) ==
    UtmLocals(zone, UtmLonOrigin(zone), toRadians(lat), toRadians(lon))

UtmSetup(lat, lon) == UtmSetupFrom(lat, lon, UtmZone(lon))

\* N = a / sqrt(1 - e2 * sin(latRad) ** 2)
UtmN(latRad) ==
    fDiv(WGS84_a, fSqrt(fSub(Num(1), fMul(WGS84_e2, fSq(fSin(latRad))))))

\* T = tan(latRad) ** 2
UtmT(latRad) == fSq(fTan(latRad))

\* C = ep2 * cos(latRad) ** 2
UtmC(latRad) == fMul(WGS84_ep2, fSq(fCos(latRad)))

\* A = cos(latRad) * (lonRad - lonOriginRad)
UtmA(latRad, lonRad, lonOriginRad) ==
    fMul(fCos(latRad), fSub(lonRad, lonOriginRad))

\* 1 - e2/4 - 3*e2**2/64 - 5*e2**3/256
UtmM0 ==
    fSub(fSub(fSub(Num(1), fDiv(WGS84_e2, Num(4))),
              fDiv(fMul(Num(3), fSq(WGS84_e2)), Num(64))),
         fDiv(fMul(Num(5), fPow(WGS84_e2, 3)), Num(256)))

\* 3*e2/8 + 3*e2**2/32 + 45*e2**3/1024
UtmM2 ==
    fAdd(fAdd(fDiv(fMul(Num(3), WGS84_e2), Num(8)),
              fDiv(fMul(Num(3), fSq(WGS84_e2)), Num(32))),
         fDiv(fMul(Num(45), fPow(WGS84_e2, 3)), Num(1024)))

\* 15*e2**2/256 + 45*e2**3/1024
UtmM4 ==
    fAdd(fDiv(fMul(Num(15), fSq(WGS84_e2)), Num(256)),
         fDiv(fMul(Num(45), fPow(WGS84_e2, 3)), Num(1024)))

\* 35*e2**3/3072
UtmM6 == fDiv(fMul(Num(35), fPow(WGS84_e2, 3)), Num(3072))

\* M = a * (M0 * latRad - M2 * sin(2 latRad) + M4 * sin(4 latRad)
\*          - M6 * sin(6 latRad))
UtmM(latRad) ==
    fMul(WGS84_a,
         fSub(fAdd(fSub(fMul(UtmM0, latRad),
                        fMul(UtmM2, fSin(fMul(Num(2), latRad)))),
                   fMul(UtmM4, fSin(fMul(Num(4), latRad)))),
              fMul(UtmM6, fSin(fMul(Num(6), latRad)))))

\* Lines 548-569: N, T, C, A and M.
UtmTerms(s) ==
    [s EXCEPT !.N = UtmN(s.latRad), !.T = UtmT(s.latRad), !.C = UtmC(s.latRad),
              !.A = UtmA(s.latRad, s.lonRad, s.lonOriginRad),
              !.M = UtmM(s.latRad)]

\* 5 - 18*T + T**2 + 72*C - 58*ep2
UtmEastPoly(T, C) ==
    fSub(fAdd(fAdd(fSub(Num(5), fMul(Num(18), T)), fSq(T)), fMul(Num(72), C)),
         fMul(Num(58), WGS84_ep2))

\* A + (1 - T + C) * A**3 / 6 + (...) * A**5 / 120
UtmEastSeries(T, C, A) ==
    fAdd(fAdd(A, fDiv(fMul(fAdd(fSub(Num(1), T), C), fPow(A, 3)), Num(6))),
         fDiv(fMul(UtmEastPoly(T, C), fPow(A, 5)), Num(120)))

\* easting = k0 * N * (...) + 500000
UtmEasting(s) ==
    fAdd(fMul(fMul(UtmK0, s.N), UtmEastSeries(s.T, s.C, s.A)), FalseEasting)

\* 5 - T + 9*C + 4*C**2
UtmNorthPoly4(T, C) ==
    fAdd(fAdd(fSub(Num(5), T), fMul(Num(9), C)), fMul(Num(4), fSq(C)))

\* 61 - 58*T + T**2 + 600*C - 330*ep2
UtmNorthPoly6(T, C) ==
    fSub(fAdd(fAdd(fSub(Num(61), fMul(Num(58), T)), fSq(T)),
              fMul(Num(600), C)),
         fMul(Num(330), WGS84_ep2))

\* A**2 / 2 + (...) * A**4 / 24 + (...) * A**6 / 720
UtmNorthSeries(T, C, A) ==
    fAdd(fAdd(fDiv(fSq(A), Num(2)),
              fDiv(fMul(UtmNorthPoly4(T, C), fPow(A, 4)), Num(24))),
         fDiv(fMul(UtmNorthPoly6(T, C), fPow(A, 6)), Num(720)))

\* northing = k0 * (M + N * tan(latRad) * (...))
UtmNorthing(s) ==
    fMul(UtmK0,
         fAdd(s.M, fMul(fMul(s.N, fTan(s.latRad)),
                        UtmNorthSeries(s.T, s.C, s.A))))

\* Fault: the false northing added on the equator too.
UtmIsSouthOrEquator(lat) == fLe(lat, Zero)

\* lat < 0
UtmIsSouth(lat) == fLt(lat, Zero)

\* hemisphere = lat >= 0 ? 'N' : 'S'
UtmHemisphere(lat) == IF fLe(Zero, lat) THEN "N" ELSE "S"

\* Fault: the false northing taken off instead of added.
UtmFalseNorthingOff(lat, northing) ==
    IF UtmIsSouth(lat) THEN fSub(northing, FalseNorthing) ELSE northing

\* if (lat < 0) northing += 10000000
UtmFalseNorthing(lat, northing) ==
    IF UtmIsSouth(lat) THEN fAdd(northing, FalseNorthing) ELSE northing

\* Lines 571-598: the easting, the northing and the false northing.
UtmSums(lat, s, northing0) ==
    [s EXCEPT !.easting = UtmEasting(s), !.northing0 = northing0,
              !.northing = UtmFalseNorthing(lat, northing0),
              !.added = UtmIsSouth(lat)]

UtmResult(lat, s) == UtmSums(lat, s, UtmNorthing(s))

\* Lines 600-605: the returned object.
UtmReturned(lat, s) ==
    [zone |-> s.zone, hemisphere |-> UtmHemisphere(lat),
     easting |-> toFixed2(s.easting), northing |-> toFixed2(s.northing)]

(***************************************************************************)
(* projectPoint and inverseProject (js/projections.js).  A projection id   *)
(* is a string; "undefined" stands for a missing argument.                 *)
(***************************************************************************)
Half == Rnd(1, -1)

\* x = (lon + 180) / 360
EquirectX(lon) == fDiv(fAdd(lon, Num(180)), Num(360))

\* Fault: y grows with the latitude, the plane upside down.
EquirectYUpsideDown(lat) == fDiv(fAdd(Num(90), lat), Num(180))

\* y = (90 - lat) / 180
EquirectY(lat) == fDiv(fSub(Num(90), lat), Num(180))

\* Fault: the latitude clamped to the poles, that is, not at all.
MercatorClampAt90(lat) == fMax(fNeg(Num(90)), fMin(Num(90), lat))

\* clampedLat = Math.max(-maxLat, Math.min(maxLat, lat)) with maxLat = 85
MercatorClamp(lat) == fMax(fNeg(Num(85)), fMin(Num(85), lat))

\* y = 0.5 - Math.log(Math.tan(PI / 4 + toRadians(clampedLat) / 2)) / (2 PI)
MercatorY(lat) ==
    fSub(Half,
         fDiv(fLog(fTan(fAdd(fDiv(MathPI, Num(4)),
                             fDiv(toRadians(MercatorClamp(lat)), Num(2))))),
              fMul(Num(2), MathPI)))

\* 2 + 2 cos(2 theta)
MollweideDenominator(theta) ==
    fAdd(Num(2), fMul(Num(2), fCos(fMul(Num(2), theta))))

\* theta - (2 theta + sin(2 theta) - PI sin(latRad)) / (2 + 2 cos(2 theta))
MollweideStep(theta, latRad) ==
    fSub(theta,
         fDiv(fSub(fAdd(fMul(Num(2), theta), fSin(fMul(Num(2), theta))),
                   fMul(MathPI, fSin(latRad))),
              MollweideDenominator(theta)))

\* x = 0.5 + (lonRad / PI) * cos(theta) * 0.4
MollweideX(lonRad, theta) ==
    fAdd(Half, fMul(fMul(fDiv(lonRad, MathPI), fCos(theta)),
                    Lit(858993459, -31)))

\* y = 0.5 - sin(theta) * 0.45
MollweideY(theta) == fSub(Half, fMul(fSin(theta), Lit(966367641, -31)))

\* x = 0.5 + (lonRad * cos(latRad)) / PI * 0.45
SinusoidalX(latRad, lonRad) ==
    fAdd(Half, fMul(fDiv(fMul(lonRad, fCos(latRad)), MathPI),
                    Lit(966367641, -31)))

\* y = 0.5 - latRad / PI * 0.9
SinusoidalY(latRad) ==
    fSub(Half, fMul(fDiv(latRad, MathPI), Lit(966367641, -30)))

\* const robinsonTable: rows [latitude, plen, pdfe] every 5 degrees.
robinsonTable ==
  << <<Zero, Num(1), Zero>>,
     <<Num(5), Lit(1072238585, -30), Lit(1065151889, -34)>>,
     <<Num(10), Lit(1068802611, -30), Lit(1065151889, -33)>>,
     <<Num(15), Lit(1063004405, -30), Lit(798863917, -32)>>,
     <<Num(20), Lit(1054629219, -30), Lit(1065151889, -32)>>,
     <<Num(25), Lit(1044750794, -30), Lit(665719930, -31)>>,
     <<Num(30), Lit(1030792151, -30), Lit(798863917, -31)>>,
     <<Num(35), Lit(1012216417, -30), Lit(932007903, -31)>>,
     <<Num(40), Lit(989560464, -30), Lit(1064722392, -31)>>,
     <<Num(45), Lit(962287422, -30), Lit(598181570, -30)>>,
     <<Num(50), Lit(931900529, -30), Lit(663142950, -30)>>,
     <<Num(55), Lit(896574423, -30), Lit(726815840, -30)>>,
     <<Num(60), Lit(857490220, -30), Lit(788770743, -30)>>,
     <<Num(65), Lit(815721663, -30), Lit(848578163, -30)>>,
     <<Num(70), Lit(771590874, -30), Lit(905701228, -30)>>,
     <<Num(75), Lit(722842995, -30), Lit(959495693, -30)>>,
     <<Num(80), Lit(667115795, -30), Lit(1008673069, -30)>>,
     <<Num(85), Lit(614395071, -30), Lit(1048079394, -30)>>,
     <<Num(90), Lit(571445398, -30), Num(1)>> >>

\* The number x as an index: a whole number at least 0.
IsIndex(x) == ~IsNaN(x) /\ ~IsInf(x) /\ x.m >= 0
                /\ (x.e >= 0 \/ (-x.e <= 30 /\ x.m % Pow2(-x.e) = 0))

IndexOf(x) == IF x.e >= 0 THEN x.m * Pow2(x.e) ELSE x.m \div Pow2(-x.e)

\* robinsonTable[idx] is a row: reading an element of anything else throws.
RobinsonHasRow(idx) == IsIndex(idx) /\ IndexOf(idx) < Len(robinsonTable)

\* robinsonTable[idx][col]
RobinsonAt(idx, col) == robinsonTable[IndexOf(idx) + 1][col + 1]

\* Fault: the guard with > for >=.
RobinsonClampAbove(idx) ==
    IF fLt(Num(Len(robinsonTable) - 1), idx) THEN Num(Len(robinsonTable) - 2)
    ELSE idx

\* if (idx >= robinsonTable.length - 1) idx = robinsonTable.length - 2
RobinsonClamp(idx) ==
    IF fLe(Num(Len(robinsonTable) - 1), idx) THEN Num(Len(robinsonTable) - 2)
    ELSE idx

\* let idx = Math.floor(absLat / 5), clamped
RobinsonIdx(absLat) == RobinsonClamp(fFloor(fDiv(absLat, Num(5))))

\* t = (absLat - robinsonTable[idx][0]) / 5
RobinsonT(absLat, idx) == fDiv(fSub(absLat, RobinsonAt(idx, 0)), Num(5))

\* robinsonTable[idx][col] * (1 - t) + robinsonTable[idx + 1][col] * t
RobinsonLerp(idx, col, t) ==
    fAdd(fMul(RobinsonAt(idx, col), fSub(Num(1), t)),
         fMul(RobinsonAt(fAdd(idx, Num(1)), col), t))

\* x = 0.5 + (lon / 180) * plen * 0.45
RobinsonX(lon, plen) ==
    fAdd(Half, fMul(fMul(fDiv(lon, Num(180)), plen), Lit(966367641, -31)))

\* y = 0.5 - (lat < 0 ? -1 : 1) * pdfe * 0.45
RobinsonY(lat, pdfe) ==
    fSub(Half, fMul(fMul(IF fLt(lat, Zero) THEN Num(-1) ELSE Num(1), pdfe),
                    Lit(966367641, -31)))

\* case 'robinson', with idx and t computed.
RobinsonXY(lat, lon, idx, t) ==
    [x |-> RobinsonX(lon, RobinsonLerp(idx, 1, t)),
     y |-> RobinsonY(lat, RobinsonLerp(idx, 2, t))]

\* y = 0.5 - Math.sin(latRad) * 0.5
LambertY(latRad) == fSub(Half, fMul(fSin(latRad), Half))

\* The switch of projectPoint without its 'robinson' case: x and y of the
\* matching case, the default for any other id; theta is the result of the
\* Mollweide loop.
ProjectCase(lat, lon, projection, latRad, lonRad, theta) ==
    CASE projection = "mercator" ->
            [x |-> EquirectX(lon), y |-> MercatorY(lat)]
      [] projection = "mollweide" ->
            [x |-> MollweideX(lonRad, theta), y |-> MollweideY(theta)]
      [] projection = "sinusoidal" ->
            [x |-> SinusoidalX(latRad, lonRad), y |-> SinusoidalY(latRad)]
      [] projection = "lambert" ->
            [x |-> EquirectX(lon), y |-> LambertY(latRad)]
      [] OTHER ->
            [x |-> EquirectX(lon), y |-> EquirectY(lat)]

\* return { x: x * 100, y: y * 100 }
ProjectReturned(xy) == [x |-> fMul(xy.x, Num(100)), y |-> fMul(xy.y, Num(100))]

NoXY == [x |-> Zero, y |-> Zero]

\* case 'robinson' from the clamped idx on: line 200 reads row idx and
\* line 204 row idx + 1.
RobinsonOutcome(lat, lon, idx) ==
    IF RobinsonHasRow(idx) /\ RobinsonHasRow(fAdd(idx, Num(1)))
    THEN [threw |-> FALSE,
          ret |-> ProjectReturned(
                      RobinsonXY(lat, lon, idx, RobinsonT(fAbs(lat), idx)))]
    ELSE [threw |-> TRUE, ret |-> NoXY]

\* The switch and the return of projectPoint: what it returns, or that it
\* threw.
ProjectOutcome(lat, lon, projection, latRad, lonRad, theta) ==
    IF projection = "robinson"
    THEN RobinsonOutcome(lat, lon, RobinsonIdx(fAbs(lat)))
    ELSE [threw |-> FALSE,
          ret |-> ProjectReturned(
                      ProjectCase(lat, lon, projection, latRad, lonRad, theta))]

\* lon = nx * 360 - 180
InverseLon(nx) == fSub(fMul(nx, Num(360)), Num(180))

\* Fault: the latitude grows with ny.
InverseEquirectLatUpsideDown(ny) == fSub(fMul(ny, Num(180)), Num(90))

\* lat = 90 - ny * 180
InverseEquirectLat(ny) == fSub(Num(90), fMul(ny, Num(180)))

\* toDegrees(2 * Math.atan(Math.exp((0.5 - ny) * 2 * PI)) - PI / 2)
InverseMercatorRaw(ny) ==
    toDegrees(fSub(fMul(Num(2),
                        fAtan(fExp(fMul(fMul(fSub(Half, ny), Num(2)), MathPI)))),
                   fDiv(MathPI, Num(2))))

\* Fault: the inverse Mercator latitude returned unclamped.
InverseMercatorUnclamped(ny) == InverseMercatorRaw(ny)

\* lat = Math.max(-85, Math.min(85, lat))
InverseMercatorLat(ny) ==
    fMax(Num(-85), fMin(Num(85), InverseMercatorRaw(ny)))

\* inverseProject(nx, ny, projection): switch with the one case 'mercator'.
inverseProject(nx, ny, projection) ==
    CASE projection = "mercator" ->
            [lat |-> InverseMercatorLat(ny), lon |-> InverseLon(nx)]
      [] OTHER ->
            [lat |-> InverseEquirectLat(ny), lon |-> InverseLon(nx)]

\* The inline code of handlePlaneClick and handlePlaneMouseMove:
\* if (selectedProjection === 'mercator') { ... } else { ... }
PlaneToGeo(nx, ny, selectedProjection) ==
    IF selectedProjection = "mercator"
    THEN [lat |-> fMax(Num(-85), fMin(Num(85), InverseMercatorRaw(ny))),
          lon |-> fSub(fMul(nx, Num(360)), Num(180))]
    ELSE [lat |-> fSub(Num(90), fMul(ny, Num(180))),
          lon |-> fSub(fMul(nx, Num(360)), Num(180))]

\* The integer nearest to 10000 * m * 2^e for m >= 0, the larger one of two
\* equally near.
TenThousandths(m, e) ==
    IF e >= 0 THEN m * Pow2(e) * 10000
    ELSE IF -e > 2 * Prec + 7 THEN 0
    ELSE (m * 20000 + Pow2(-e)) \div Pow2(1 - e)

\* x.toFixed(4)
toFixed4(x) ==
    [minus |-> x.m < 0, tenThousandths |-> TenThousandths(IAbs(x.m), x.e)]

\* { lat: lat.toFixed(4), lon: lon.toFixed(4) }
MouseCoords(geo) == [lat |-> toFixed4(geo.lat), lon |-> toFixed4(geo.lon)]

\* Math.round(v * 1000) / 1000
RoundThousandths(v) == fDiv(fRound(fMul(v, Num(1000))), Num(1000))

\* { lat: Math.round(lat * 1000) / 1000, lon: Math.round(lon * 1000) / 1000 }
ClickedPoint(geo) ==
    [lat |-> RoundThousandths(geo.lat), lon |-> RoundThousandths(geo.lon)]

(***************************************************************************)
(* dmsToDecimal and decimalToDMS (js/geodesia.js) and parseFloat.  The     *)
(* argument of parseFloat is a text (the characters of an input field), a  *)
(* number, or the digits Number.prototype.toFixed(2) returned.             *)
(***************************************************************************)
Text(chars) == [kind |-> "text", chars |-> chars]

Number(x) == [kind |-> "number", value |-> x]

Fixed2(digits) == [kind |-> "fixed2", digits |-> digits]

Digits == {"0", "1", "2", "3", "4", "5", "6", "7", "8", "9"}

DigitValue(c) ==
    CASE c = "0" -> 0 [] c = "1" -> 1 [] c = "2" -> 2 [] c = "3" -> 3
      [] c = "4" -> 4 [] c = "5" -> 5 [] c = "6" -> 6 [] c = "7" -> 7
      [] c = "8" -> 8 [] c = "9" -> 9

\* 10^k
RECURSIVE Pow10(_)
Pow10(k) == IF k = 0 THEN 1 ELSE 10 * Pow10(k - 1)

\* The number nearest to n / d for integers n and d > 0, rounded once: the
\* value of a decimal numeral with the digits n over the power of ten d.
DecimalShifted(n, d, sh) ==
    Rnd(ISgn(n) * DivBits(IAbs(n) * Pow2(sh), d), -sh - 1)

Decimal(n, d) ==
    IF n = 0 THEN Zero
    ELSE IF BitLen(IAbs(n)) >= Prec + 3 + BitLen(d) THEN DecimalShifted(n, d, 0)
    ELSE DecimalShifted(n, d, Prec + 3 + BitLen(d) - BitLen(IAbs(n)))

\* The first position from i on that holds no white space.
RECURSIVE SkipSpaces(_, _)
SkipSpaces(s, i) ==
    IF i <= Len(s) /\ s[i] = " " THEN SkipSpaces(s, i + 1) ELSE i

\* The run of digits of s from position i on, after the digits n (count of
\* them cnt): the digits read, their count and the position after them.
RECURSIVE ScanDigits(_, _, _, _)
ScanDigits(s, i, n, cnt) ==
    IF i <= Len(s) /\ s[i] \in Digits
    THEN ScanDigits(s, i + 1, 10 * n + DigitValue(s[i]), cnt + 1)
    ELSE [n |-> n, cnt |-> cnt, i |-> i]

\* The digits after a decimal point at position whole.i, if there is one.
ScanFraction(s, whole) ==
    IF whole.i <= Len(s) /\ s[whole.i] = "."
    THEN ScanDigits(s, whole.i + 1, whole.n, 0)
    ELSE [n |-> whole.n, cnt |-> 0, i |-> whole.i]

\* The numeral read: NaN without a digit, else sign * digits / 10^places.
NumeralValue(sg, whole, frac) ==
    IF whole.cnt + frac.cnt = 0 THEN NaN
    ELSE Decimal(sg * frac.n, Pow10(frac.cnt))

\* The unsigned numeral of s from position i on, with the sign sg.
ParseNumeral(s, i, sg) ==
    NumeralValue(sg, ScanDigits(s, i, 0, 0),
                 ScanFraction(s, ScanDigits(s, i, 0, 0)))

\* parseFloat of the characters s from position i on (after the white
\* space): an optional sign, then the longest numeral; what follows it is
\* ignored.  The texts of the model hold no exponent part and no "Infinity".
ParseSigned(s, i) ==
    IF i <= Len(s) /\ s[i] = "-" THEN ParseNumeral(s, i + 1, -1)
    ELSE IF i <= Len(s) /\ s[i] = "+" THEN ParseNumeral(s, i + 1, 1)
    ELSE ParseNumeral(s, i, 1)

\* parseFloat(v): of a text its leading numeral or NaN, of a number the
\* number itself (the numeral String(v) denotes v), of the digits of
\* toFixed(2) the number nearest to them.
parseFloat(v) ==
    CASE v.kind = "text" -> ParseSigned(v.chars, SkipSpaces(v.chars, 1))
      [] v.kind = "number" -> v.value
      [] v.kind = "fixed2" ->
            Decimal((IF v.digits.minus THEN -1 ELSE 1) * v.digits.hundredths,
                    100)

\* x || 0: 0 for NaN and for 0.
OrZero(x) == IF IsNaN(x) \/ x.m = 0 THEN Zero ELSE x

\* Fault: every direction but 'N' and 'E' counted as negative.
DmsIsNegativeUnlessNE(direction) == direction \notin {"N", "E"}

\* direction === 'S' || direction === 'W'
DmsIsNegative(direction) == direction = "S" \/ direction = "W"

\* Math.abs(parseFloat(deg) || 0) + (parseFloat(min) || 0) / 60
\*   + (parseFloat(sec) || 0) / 3600
DmsMagnitude(deg, min, sec) ==
    fAdd(fAdd(fAbs(OrZero(parseFloat(deg))),
              fDiv(OrZero(parseFloat(min)), Num(60))),
         fDiv(OrZero(parseFloat(sec)), Num(3600)))

\* dmsToDecimal(deg, min, sec, direction)
dmsToDecimal(deg, min, sec, direction) ==
    IF DmsIsNegative(direction) THEN fNeg(DmsMagnitude(deg, min, sec))
    ELSE DmsMagnitude(deg, min, sec)

\* minFloat = (abs - deg) * 60.  decimalToDMS is evaluated exactly: for an
\* argument with at most 20 fractional bits its subtractions and products
\* have fewer than 53 bits and are exact in the program as well.
DmsMinFloat(abs, deg) == xMul(xSub(abs, deg), Num(60))

\* Fault: the seconds left as a fraction of a minute.
DmsSecUnscaled(minFloat, min) == xSub(minFloat, min)

\* sec = (minFloat - min) * 60
DmsSec(minFloat, min) == xMul(xSub(minFloat, min), Num(60))

\* decimalToDMS from deg and minFloat on.
DmsFromMinFloat(deg, minFloat) ==
    [deg |-> deg, min |-> fFloor(minFloat),
     sec |-> toFixed2(DmsSec(minFloat, fFloor(minFloat)))]

\* decimalToDMS(decimal): { deg, min, sec: sec.toFixed(2) }
decimalToDMS(decimal) ==
    DmsFromMinFloat(fFloor(fAbs(decimal)),
                    DmsMinFloat(fAbs(decimal), fFloor(fAbs(decimal))))
(***************************************************************************)
(* The handlers of the component App (app.js, lines 341-440 and 633;       *)
(* script.js, lines 952-1006) as functions of the state they read.         *)
(***************************************************************************)
\* addPoint, lines 345-352: the latitude read from the input fields.
AddPointLat(format, fields) ==
    IF format = "decimal" THEN parseFloat(fields.inputLat)
    ELSE dmsToDecimal(fields.inputDeg, fields.inputMin, fields.inputSec,
                      fields.inputNS)

\* addPoint, lines 345-352: the longitude read from the input fields.
AddPointLon(format, fields) ==
    IF format = "decimal" THEN parseFloat(fields.inputLon)
    ELSE dmsToDecimal(fields.inputDegLon, fields.inputMinLon,
                      fields.inputSecLon, fields.inputEW)

\* Fault: the validation without its NaN tests.
AddPointRejectsOutOfRange(lat, lon) ==
    \/ fLt(lat, Num(-90)) \/ fLt(Num(90), lat)
    \/ fLt(lon, Num(-180)) \/ fLt(Num(180), lon)

\* isNaN(lat) || isNaN(lon) || lat < -90 || lat > 90 || lon < -180
\*   || lon > 180
AddPointRejects(lat, lon) ==
    \/ IsNaN(lat) \/ IsNaN(lon)
    \/ fLt(lat, Num(-90)) \/ fLt(Num(90), lat)
    \/ fLt(lon, Num(-180)) \/ fLt(Num(180), lon)

\* addPoint, lines 361-367: the fields of the format in use set to ''.
AddPointClears(format, fields) ==
    IF format = "decimal"
    THEN [fields EXCEPT !.inputLat = Text(<<>>), !.inputLon = Text(<<>>)]
    ELSE [fields EXCEPT !.inputDeg = Text(<<>>), !.inputMin = Text(<<>>),
                        !.inputSec = Text(<<>>),
                        !.inputDegLon = Text(<<>>),
                        !.inputMinLon = Text(<<>>),
                        !.inputSecLon = Text(<<>>)]

\* Fault: completePolygon with the guard points.length < 2.
CompleteRefusesBelowTwo(pts) == Len(pts) < 2

\* if (points.length < 3) return;
CompleteRefuses(pts) == Len(pts) < 3

\* createSphericalLines(points, ...) as the list of meshes to push: none
\* (null) for fewer than 2 points.
createSphericalLines(pts) ==
    IF Len(pts) < 2 THEN <<>> ELSE <<"line">>

\* createSphericalFill(points, ...) as the list of meshes to push: none
\* (null) for fewer than 3 points.
createSphericalFill(pts) ==
    IF Len(pts) < 3 THEN <<>> ELSE <<"fill">>

\* points.filter((_, j) => j !== i), with i counted from 1.
WithoutVertex(pts, i) ==
    [j \in 1..(Len(pts) - 1) |-> IF j < i THEN pts[j] ELSE pts[j + 1]]
(***************************************************************************)
(* The WGS84 record (script.js, lines 33-75) with the numbers it stores.   *)
(* A stored number is a double: the whole number m (53 bits) over 2^k.     *)
(***************************************************************************)
Double(groups, k) == [m |-> Big(groups), k |-> k]

\* The decimal literal of n digits with d of them after the point.
Literal(groups, d) == [n |-> Big(groups), d |-> d]

\* The literals of the record; F is the divisor in f: 1 / 298.257223563.
WGS84Literals ==
    [a   |-> Literal(<<6, 378, 137>>, 0),
     b   |-> Literal(<<6, 356, 752, 314, 245>>, 6),
     F   |-> Literal(<<298, 257, 223, 563>>, 9),
     e   |-> Literal(<<818, 191, 908, 426>>, 13),
     e2  |-> Literal(<<669, 437, 999, 14>>, 14),
     ep2 |-> Literal(<<673, 949, 674, 228>>, 14)]

\* The double that 298.257223563 is read as.
WGS84Divisor == Double(<<5, 246, 996, 566, 11, 272>>, 44)

\* Fault: ep2 holds the number of e2.
WGS84SameEccentricities ==
    [a   |-> Double(<<6, 848, 472, 456, 101, 888>>, 30),
     b   |-> Double(<<6, 825, 510, 824, 613, 647>>, 30),
     f   |-> Double(<<7, 731, 55, 32, 525, 96>>, 61),
     e   |-> Double(<<5, 895, 694, 38, 247, 822>>, 56),
     e2  |-> Double(<<7, 718, 94, 650, 642, 178>>, 60),
     ep2 |-> Double(<<7, 718, 94, 650, 642, 178>>, 60)]

\* const WGS84 = { a: 6378137.0, b: 6356752.314245, f: 1 / 298.257223563,
\*                 e: 0.0818191908426, e2: 0.00669437999014,
\*                 ep2: 0.00673949674228 }
WGS84Stored ==
    [a   |-> Double(<<6, 848, 472, 456, 101, 888>>, 30),
     b   |-> Double(<<6, 825, 510, 824, 613, 647>>, 30),
     f   |-> Double(<<7, 731, 55, 32, 525, 96>>, 61),
     e   |-> Double(<<5, 895, 694, 38, 247, 822>>, 56),
     e2  |-> Double(<<7, 718, 94, 650, 642, 178>>, 60),
     ep2 |-> Double(<<7, 770, 110, 724, 402, 401>>, 60)]

\* x has the 53 bits of a double.
IsDouble(x) ==
    /\ BigLe(BigPow(2, 52), x.m)
    /\ ~BigLe(BigPow(2, 53), x.m)

\* x is a double next to the number the literal denotes: they differ by
\* half a unit of the last bit of x at most.
IsDoubleOf(x, lit) ==
    /\ IsDouble(x)
    /\ BigLe(BigTimes(BigDiff(BigMul(x.m, BigPow(10, lit.d)),
                              BigMul(lit.n, BigPow(2, x.k))), 2),
             BigPow(10, lit.d))

\* x is a double next to the quotient 1 / y of the double y.
IsDoubleOfInverse(x, y) ==
    /\ IsDouble(x)
    /\ BigLe(BigTimes(BigDiff(BigMul(x.m, y.m), BigPow(2, x.k + y.k)), 2),
             y.m)

\* The record holds the doubles that its literals are read as.
IsWGS84AsWritten(W) ==
    /\ IsDoubleOf(W.a, WGS84Literals.a)
    /\ IsDoubleOf(W.b, WGS84Literals.b)
    /\ IsDoubleOf(WGS84Divisor, WGS84Literals.F)
    /\ IsDoubleOfInverse(W.f, WGS84Divisor)
    /\ IsDoubleOf(W.e, WGS84Literals.e)
    /\ IsDoubleOf(W.e2, WGS84Literals.e2)
    /\ IsDoubleOf(W.ep2, WGS84Literals.ep2)

\* a^2 and b^2 over the same power of 2.
WGS84SquareA(W) == BigMul(BigMul(W.a.m, W.a.m), BigPow(2, 2 * W.b.k))
WGS84SquareB(W) == BigMul(BigMul(W.b.m, W.b.m), BigPow(2, 2 * W.a.k))

\* The gaps b - a(1 - f), e2 - (1 - (b/a)^2) and ep2 - (a^2 - b^2)/b^2, each
\* as the whole number 'over' divided by the whole number 'under', sign
\* dropped.
EllipsoidGapB(W) ==
    [over  |-> BigDiff(BigMul(W.b.m, BigPow(2, W.a.k + W.f.k)),
                       BigMul(BigMul(W.a.m, BigDiff(BigPow(2, W.f.k), W.f.m)),
                              BigPow(2, W.b.k))),
     under |-> BigPow(2, W.a.k + W.f.k + W.b.k)]

EllipsoidGapE2(W) ==
    [over  |-> BigDiff(BigMul(W.e2.m, WGS84SquareA(W)),
                       BigMul(BigDiff(WGS84SquareA(W), WGS84SquareB(W)),
                              BigPow(2, W.e2.k))),
     under |-> BigMul(WGS84SquareA(W), BigPow(2, W.e2.k))]

EllipsoidGapEp2(W) ==
    [over  |-> BigDiff(BigMul(W.ep2.m, WGS84SquareB(W)),
                       BigMul(BigDiff(WGS84SquareA(W), WGS84SquareB(W)),
                              BigPow(2, W.ep2.k))),
     under |-> BigMul(WGS84SquareB(W), BigPow(2, W.ep2.k))]

\* over / under <= 10^-digits
GapWithin(gap, digits) ==
    BigLe(BigMul(gap.over, BigPow(10, digits)), gap.under)

\* The gap is at most 10^-digits and more than a tenth of that.
GapOfDigits(gap, digits) ==
    /\ GapWithin(gap, digits)
    /\ ~GapWithin(gap, digits + 1)

(***************************************************************************)
(* State.  One call at a time.                                             *)
(*   v..: a call of vincentyDistance: its arguments, its locals, where it  *)
(*        is, how many times the loop body has run, what it returned and   *)
(*        by which return statement.                                       *)
(*   g..: a call of calculateGeodesicArea, calculatePerimeter or           *)
(*        calculateCentroid: which one, its point list, where it is, the   *)
(*        loop index, its locals, what it returned and the index pairs     *)
(*        (i, j) of the calls of vincentyDistance it made.                 *)
(*   z..: a call of calculateAzimuth followed by azimuthToRumbo, or of     *)
(*        azimuthToRumbo on a given azimuth.                               *)
(*   u..: a call of latLonToUTM: its arguments, where it is, its locals    *)
(*        and the object it returned.                                      *)
(*   p..: a call of projectPoint (followed by inverseProject on its result *)
(*        divided by 100), of inverseProject, or of one of the handlers    *)
(*        handlePlaneClick and handlePlaneMouseMove: the call, where it    *)
(*        is, the locals of projectPoint, what it returned, the geographic *)
(*        point of the inverse, the point the click appended and the       *)
(*        coordinates the mouse move displays.                             *)
(*   d..: a call of dmsToDecimal, of decimalToDMS (followed by             *)
(*        dmsToDecimal on its result) or of addPoint: the call, where it   *)
(*        is, the decimal and the DMS triple returned.                     *)
(*   The state of the component App: the coordinate format, the ten input  *)
(*   fields, the vertices of the polygon being drawn, the saved polygons,  *)
(*   the meshes of the saved polygons on the sphere and the drawing flag.  *)
(*   The 3D view: the two flags of its mouse handlers, the time left on    *)
(*   each pending timer (oldest first), the time since the last release    *)
(*   (the delay of the timers standing for that long or longer, or never)  *)
(*   and what the last step did to the sphere: 'auto' for a frame that     *)
(*   turned it, 'still' for one that did not, 'drag' for the mouse.        *)
(*   WGS84: the record of the ellipsoid that the functions read.           *)
(***************************************************************************)
VARIABLES vArgs, vLoc, vPc, vPasses, vRet, vVia,
          gOp, gPts, gPc, gI, gLoc, gRet, gCalls,
          zArgs, zFrom, zPc, zAzimuth, zRumbo,
          uArgs, uPc, uLoc, uRet,
          pCall, pPc, pLoc, pRet, pGeo, pAdded, pShown,
          dCall, dPc, dDecimal, dDms,
          coordFormat, inputs, points, polygons, polygonMeshes, isDrawing,
          isDragging, autoRotate, timers, sinceRelease, frame,
          WGS84

vVars == <<vArgs, vLoc, vPc, vPasses, vRet, vVia>>

gVars == <<gOp, gPts, gPc, gI, gLoc, gRet, gCalls>>

zVars == <<zArgs, zFrom, zPc, zAzimuth, zRumbo>>

uVars == <<uArgs, uPc, uLoc, uRet>>

pVars == <<pCall, pPc, pLoc, pRet, pGeo, pAdded, pShown>>

dVars == <<dCall, dPc, dDecimal, dDms>>

eVars == <<coordFormat, inputs, points, polygons, polygonMeshes, isDrawing>>

rVars == <<isDragging, autoRotate, timers, sinceRelease, frame>>

vars == <<vVars, gVars, zVars, uVars, pVars, dVars, eVars, rVars, WGS84>>

\* Latitudes and longitudes (degrees) the calls are made with.
VLats == {-90, -30, 0, 30, 41, 90}

VLons == {-180, 0, 2, 90, 180}

VPoints == [lat : {Num(d) : d \in VLats}, lon : {Num(d) : d \in VLons}]

NoLocals == VLocals([cos |-> Zero, sin |-> Zero], [cos |-> Zero, sin |-> Zero], Zero)

NoPoint == [lat |-> Zero, lon |-> Zero]

NoSums == [area |-> Zero, perimeter |-> Zero, sumLat |-> Zero, sumLon |-> Zero]

NoRumbo == [quadrant |-> "", angle |-> toFixed2(Zero)]

\* No call of vincentyDistance is in progress.
VIdle ==
    /\ vArgs = [p1 |-> NoPoint, p2 |-> NoPoint]
    /\ vLoc = NoLocals
    /\ vPc = "idle"
    /\ vPasses = 0
    /\ vRet = Zero
    /\ vVia = "none"

\* No call on a point list is in progress.
GIdle ==
    /\ gOp = "none"
    /\ gPts = <<>>
    /\ gPc = "idle"
    /\ gI = 0
    /\ gLoc = NoSums
    /\ gRet = Zero
    /\ gCalls = <<>>

\* No azimuth call is in progress.
ZIdle ==
    /\ zArgs = [p1 |-> NoPoint, p2 |-> NoPoint]
    /\ zFrom = "none"
    /\ zPc = "idle"
    /\ zAzimuth = Zero
    /\ zRumbo = NoRumbo

NoUtm == UtmLocals(Zero, Zero, Zero, Zero)

NoUtmRet ==
    [zone |-> Zero, hemisphere |-> "", easting |-> toFixed2(Zero),
     northing |-> toFixed2(Zero)]

\* No call of latLonToUTM is in progress.
UIdle ==
    /\ uArgs = NoPoint
    /\ uPc = "idle"
    /\ uLoc = NoUtm
    /\ uRet = NoUtmRet

NoCall ==
    [op |-> "none", projection |-> "", lat |-> Zero, lon |-> Zero,
     nx |-> Zero, ny |-> Zero]

NoProjLocals == [latRad |-> Zero, lonRad |-> Zero, theta |-> Zero, i |-> 0]

\* No projection call or handler is in progress.
PIdle ==
    /\ pCall = NoCall
    /\ pPc = "idle"
    /\ pLoc = NoProjLocals
    /\ pRet = NoXY
    /\ pGeo = NoPoint
    /\ pAdded = <<>>
    /\ pShown = MouseCoords(NoPoint)

\* The ten input fields, all empty but the two selects, which show 'N'
\* and 'W' (app.js, lines 43-44 and 71-78).
EmptyInputs ==
    [inputLat |-> Text(<<>>), inputLon |-> Text(<<>>),
     inputDeg |-> Text(<<>>), inputMin |-> Text(<<>>),
     inputSec |-> Text(<<>>), inputNS |-> "N",
     inputDegLon |-> Text(<<>>), inputMinLon |-> Text(<<>>),
     inputSecLon |-> Text(<<>>), inputEW |-> "W"]

NoDms == [deg |-> Zero, min |-> Zero, sec |-> toFixed2(Zero)]

NoDmsCall ==
    [op |-> "none", deg |-> Text(<<>>), min |-> Text(<<>>),
     sec |-> Text(<<>>), direction |-> "", decimal |-> Zero,
     coordFormat |-> "decimal", inputs |-> EmptyInputs]

\* No DMS call is in progress.
DIdle ==
    /\ dCall = NoDmsCall
    /\ dPc = "idle"
    /\ dDecimal = Zero
    /\ dDms = NoDms

\* The component as it is mounted (app.js, lines 40-78).
EIdle ==
    /\ coordFormat = "decimal"
    /\ inputs = EmptyInputs
    /\ points = <<>>
    /\ polygons = <<>>
    /\ polygonMeshes = <<>>
    /\ isDrawing = FALSE

\* The record as the script defines it (script.js, lines 33-75).
WGS84Init == WGS84 = WGS84Stored

\* setTimeout(() => { autoRotate = true; }, 4000)
ResumeDelay == 4000

\* The view as it is set up (app.js, lines 221-223): nothing dragged,
\* autoRotate set, no timer.
RIdle ==
    /\ isDragging = FALSE
    /\ autoRotate = TRUE
    /\ timers = <<>>
    /\ sinceRelease = ResumeDelay
    /\ frame = "none"

VInit ==
    /\ vArgs \in [p1 : VPoints, p2 : VPoints]
    /\ vLoc = NoLocals
    /\ vPc = "entry"
    /\ vPasses = 0
    /\ vRet = Zero
    /\ vVia = "none"
    /\ GIdle
    /\ ZIdle
    /\ UIdle
    /\ PIdle
    /\ DIdle
    /\ EIdle
    /\ RIdle
    /\ WGS84Init

\* Lines 148-174: the code before the loop.
VincentyEnter ==
    /\ vPc = "entry"
    /\ vLoc' = VSetup(vArgs.p1.lat, vArgs.p1.lon, vArgs.p2.lat, vArgs.p2.lon)
    /\ vPc' = "loop"
    /\ UNCHANGED <<vArgs, vPasses, vRet, vVia, gVars, zVars, uVars, pVars, dVars, eVars, rVars, WGS84>>

\* What one pass does from the locals s its first statements gave: it returns
\* 0 when sinσ is 0, and otherwise finishes the body and tests the condition.
VPassOutcome(s) ==
    IF s.sinSig = Zero
    THEN [loc |-> s, pc |-> "done", ret |-> Zero, via |-> "coincident"]
    ELSE [loc |-> VAfterPass(VBody(s)).loc,
          pc |-> IF VAfterPass(VBody(s)).again THEN "loop" ELSE "after",
          ret |-> vRet, via |-> vVia]

\* Lines 178-220: one pass of the do-while body and its condition.
VincentyPass ==
    /\ vPc = "loop"
    /\ vPasses' = vPasses + 1
    /\ \E r \in {VPassOutcome(VHead(vLoc))} :
          /\ vLoc' = r.loc
          /\ vPc' = r.pc
          /\ vRet' = r.ret
          /\ vVia' = r.via
    /\ UNCHANGED <<vArgs, gVars, zVars, uVars, pVars, dVars, eVars, rVars, WGS84>>

\* Lines 222-241: the code after the loop.
VincentyReturn ==
    /\ vPc = "after"
    /\ vRet' = VFinal(vLoc)
    /\ vVia' = "formula"
    /\ vPc' = "done"
    /\ UNCHANGED <<vArgs, vLoc, vPasses, gVars, zVars, uVars, pVars, dVars, eVars, rVars, WGS84>>

VNext == VincentyEnter \/ VincentyPass \/ VincentyReturn

SpecVincenty == VInit /\ [][VNext]_vars


(***************************************************************************)
(* Calls on point lists.                                                   *)
(***************************************************************************)

\* The longest point list a call is made with.
MaxPts == 3

\* k / 10 as the program reads it from a decimal literal.
Tenths(k) == fDiv(Num(k), Num(10))

Pt(lat, lon) == [lat |-> lat, lon |-> lon]

\* The points the lists are made of: (10, -70), (-33, -70), (7, 2), (0.1, 0.7).
PolyPoints ==
    {Pt(Num(10), Num(-70)), Pt(Num(-33), Num(-70)), Pt(Num(7), Num(2)),
     Pt(Tenths(1), Tenths(7))}

PointLists == UNION {[1..n -> PolyPoints] : n \in 0..MaxPts}

GInit ==
    /\ gOp \in {"area", "perimeter", "centroid"}
    /\ gPts \in PointLists
    /\ gPc = "entry"
    /\ gI = 0
    /\ gLoc = NoSums
    /\ gRet = Zero
    /\ gCalls = <<>>
    /\ VIdle
    /\ ZIdle
    /\ UIdle
    /\ PIdle
    /\ DIdle
    /\ EIdle
    /\ RIdle
    /\ WGS84Init

\* Lines 270-275: calculateGeodesicArea up to its loop.
GeodesicAreaEnter ==
    /\ gOp = "area" /\ gPc = "entry"
    /\ IF AreaDegenerate(gPts)
       THEN gRet' = Zero /\ gPc' = "done"
       ELSE gRet' = gRet /\ gPc' = "loop"
    /\ UNCHANGED <<gOp, gPts, gI, gLoc, gCalls, vVars, zVars, uVars, pVars, dVars, eVars, rVars, WGS84>>

\* Lines 279-293: one pass of the loop of calculateGeodesicArea.
GeodesicAreaPass ==
    /\ gOp = "area" /\ gPc = "loop" /\ gI < Len(gPts)
    /\ gLoc' = [gLoc EXCEPT !.area = AreaPass(gLoc.area, gPts, gI)]
    /\ gI' = gI + 1
    /\ UNCHANGED <<gOp, gPts, gPc, gRet, gCalls, vVars, zVars, uVars, pVars, dVars, eVars, rVars, WGS84>>

\* Line 298: the return of calculateGeodesicArea.
GeodesicAreaReturn ==
    /\ gOp = "area" /\ gPc = "loop" /\ ~(gI < Len(gPts))
    /\ gRet' = AreaResult(gLoc.area)
    /\ gPc' = "done"
    /\ UNCHANGED <<gOp, gPts, gI, gLoc, gCalls, vVars, zVars, uVars, pVars, dVars, eVars, rVars, WGS84>>

\* Lines 311-315: calculatePerimeter up to its loop.
PerimeterEnter ==
    /\ gOp = "perimeter" /\ gPc = "entry"
    /\ IF PerimeterDegenerate(gPts)
       THEN gRet' = Zero /\ gPc' = "done"
       ELSE gRet' = gRet /\ gPc' = "loop"
    /\ UNCHANGED <<gOp, gPts, gI, gLoc, gCalls, vVars, zVars, uVars, pVars, dVars, eVars, rVars, WGS84>>

\* Lines 318-327: one pass of the loop of calculatePerimeter, with its call
\* of vincentyDistance.
PerimeterStep ==
    /\ gOp = "perimeter" /\ gPc = "loop" /\ gI < Len(gPts)
    /\ gCalls' = Append(gCalls, <<gI, PerimeterJ(gI, Len(gPts))>>)
    /\ gLoc' = [gLoc EXCEPT !.perimeter = PerimeterPass(gLoc.perimeter, gPts, gI)]
    /\ gI' = gI + 1
    /\ UNCHANGED <<gOp, gPts, gPc, gRet, vVars, zVars, uVars, pVars, dVars, eVars, rVars, WGS84>>

\* Line 329: the return of calculatePerimeter.
PerimeterReturn ==
    /\ gOp = "perimeter" /\ gPc = "loop" /\ ~(gI < Len(gPts))
    /\ gRet' = gLoc.perimeter
    /\ gPc' = "done"
    /\ UNCHANGED <<gOp, gPts, gI, gLoc, gCalls, vVars, zVars, uVars, pVars, dVars, eVars, rVars, WGS84>>

\* Lines 344-348: calculateCentroid up to its forEach.
CentroidEnter ==
    /\ gOp = "centroid" /\ gPc = "entry"
    /\ IF CentroidEmpty(gPts)
       THEN gRet' = [lat |-> Zero, lon |-> Zero] /\ gPc' = "done"
       ELSE gRet' = gRet /\ gPc' = "loop"
    /\ UNCHANGED <<gOp, gPts, gI, gLoc, gCalls, vVars, zVars, uVars, pVars, dVars, eVars, rVars, WGS84>>

\* Lines 351-354: one call of the forEach callback.
CentroidStep ==
    /\ gOp = "centroid" /\ gPc = "loop" /\ gI < Len(gPts)
    /\ gLoc' = [gLoc EXCEPT
                  !.sumLat = CentroidPass(gLoc, At(gPts, gI)).sumLat,
                  !.sumLon = CentroidPass(gLoc, At(gPts, gI)).sumLon]
    /\ gI' = gI + 1
    /\ UNCHANGED <<gOp, gPts, gPc, gRet, gCalls, vVars, zVars, uVars, pVars, dVars, eVars, rVars, WGS84>>

\* Lines 357-360: the return of calculateCentroid.
CentroidReturn ==
    /\ gOp = "centroid" /\ gPc = "loop" /\ ~(gI < Len(gPts))
    /\ gRet' = CentroidResult(gLoc, Len(gPts))
    /\ gPc' = "done"
    /\ UNCHANGED <<gOp, gPts, gI, gLoc, gCalls, vVars, zVars, uVars, pVars, dVars, eVars, rVars, WGS84>>

GNext ==
    \/ GeodesicAreaEnter \/ GeodesicAreaPass \/ GeodesicAreaReturn
    \/ PerimeterEnter \/ PerimeterStep \/ PerimeterReturn
    \/ CentroidEnter \/ CentroidStep \/ CentroidReturn

SpecPolygon == GInit /\ [][GNext]_vars

(***************************************************************************)
(* Azimuth calls.                                                          *)
(***************************************************************************)

\* A longitude a hair west of Greenwich: -2^-50 degrees.
TinyWest == Rnd(-1, -50)

AzLats == {Num(d) : d \in {-30, 0, 10, 20}}

AzLons == {Num(d) : d \in {-180, 0, 90, 180}} \cup {TinyWest}

AzPoints == [lat : AzLats, lon : AzLons]

\* Azimuths azimuthToRumbo is called with directly: the quadrant limits, the
\* numbers next below them, and values whose hundredths round up, round
\* down and fall half way.
GivenAzimuths ==
    {Num(0), Num(45), Num(90), Num(135), Num(180), Num(225), Num(270), Num(315),
     Rnd(1439, -4), Rnd(1439, -3), Rnd(1079, -2), Rnd(1439, -2),
     Rnd(1, -3), Rnd(1283, -18), Rnd(1311, -18), Rnd(723, -3), Rnd(1085, -2)}

ZInit ==
    /\ \/ /\ zFrom = "calculated"
          /\ zArgs \in [p1 : AzPoints, p2 : AzPoints]
          /\ zPc = "entry"
          /\ zAzimuth = Zero
       \/ /\ zFrom = "given"
          /\ zArgs = [p1 |-> NoPoint, p2 |-> NoPoint]
          /\ zPc = "azimuth"
          /\ zAzimuth \in GivenAzimuths
    /\ zRumbo = NoRumbo
    /\ VIdle
    /\ GIdle
    /\ UIdle
    /\ PIdle
    /\ DIdle
    /\ EIdle
    /\ RIdle
    /\ WGS84Init

\* Lines 435-458: calculateAzimuth.
CalculateAzimuth ==
    /\ zPc = "entry"
    /\ zAzimuth' = calculateAzimuth(zArgs.p1.lat, zArgs.p1.lon,
                                    zArgs.p2.lat, zArgs.p2.lon)
    /\ zPc' = "azimuth"
    /\ UNCHANGED <<zArgs, zFrom, zRumbo, vVars, gVars, uVars, pVars, dVars, eVars, rVars, WGS84>>

\* Lines 475-508: azimuthToRumbo.
AzimuthToRumbo ==
    /\ zPc = "azimuth"
    /\ zRumbo' = azimuthToRumbo(zAzimuth)
    /\ zPc' = "done"
    /\ UNCHANGED <<zArgs, zFrom, zAzimuth, vVars, gVars, uVars, pVars, dVars, eVars, rVars, WGS84>>

ZNext == CalculateAzimuth \/ AzimuthToRumbo

SpecAzimuth == ZInit /\ [][ZNext]_vars


(***************************************************************************)
(* Calls of latLonToUTM.                                                   *)
(***************************************************************************)
\* Latitudes of the calls: the poles, the limits of the UTM band, the
\* equator and the numbers next to it.
UtmLats ==
    {Num(d) : d \in {-90, -80, -45, -1, 0, 30, 84, 90}}
      \cup {Rnd(-1, -20), Rnd(1, -20)}

\* Longitudes of the calls: both ends of the range, zone edges, central
\* meridians, 179.875, an eighth of a degree short of the east end, and the
\* numbers next below the zone edges 6 and -60.
UtmLons ==
    {Num(d) : d \in {-180, -177, -6, -3, 0, 3, 90, 177, 180}}
      \cup {Rnd(47, -3), Rnd(1439, -3)}
      \cup {Rnd(6 * Pow2(Prec - 3) - 1, 3 - Prec),
            Rnd(-60 * Pow2(Prec - 6) - 1, 6 - Prec)}

UInit ==
    /\ uArgs \in [lat : UtmLats, lon : UtmLons]
    /\ uPc = "entry"
    /\ uLoc = NoUtm
    /\ uRet = NoUtmRet
    /\ VIdle
    /\ GIdle
    /\ ZIdle
    /\ PIdle
    /\ DIdle
    /\ EIdle
    /\ RIdle
    /\ WGS84Init

\* Lines 536-545: the zone, its central meridian, the angles in radians.
UtmEnter ==
    /\ uPc = "entry"
    /\ uLoc' = UtmSetup(uArgs.lat, uArgs.lon)
    /\ uPc' = "terms"
    /\ UNCHANGED <<uArgs, uRet, vVars, gVars, zVars, pVars, dVars, eVars, rVars, WGS84>>

\* Lines 548-569: the terms of the series.
UtmSeries ==
    /\ uPc = "terms"
    /\ uLoc' = UtmTerms(uLoc)
    /\ uPc' = "sums"
    /\ UNCHANGED <<uArgs, uRet, vVars, gVars, zVars, pVars, dVars, eVars, rVars, WGS84>>

\* Lines 571-605: easting, northing, hemisphere and the returned object.
UtmReturn ==
    /\ uPc = "sums"
    /\ \E s \in {UtmResult(uArgs.lat, uLoc)} :
          /\ uLoc' = s
          /\ uRet' = UtmReturned(uArgs.lat, s)
    /\ uPc' = "done"
    /\ UNCHANGED <<uArgs, vVars, gVars, zVars, pVars, dVars, eVars, rVars, WGS84>>

UNext == UtmEnter \/ UtmSeries \/ UtmReturn

SpecUTM == UInit /\ [][UNext]_vars

(***************************************************************************)
(* Calls of projectPoint and inverseProject and the two plane handlers.    *)
(***************************************************************************)
\* The ids of the switch of projectPoint, and ids it does not know: a
\* misspelt one and a missing argument.
ProjectionIds ==
    {"mercator", "mollweide", "sinusoidal", "robinson", "lambert",
     "equirectangular"}

OtherIds == {"Mercator", "undefined"}

\* Latitudes projectPoint is called with: the range [-90, 90] with its ends
\* and the Mercator limits, a latitude out of range and NaN.
ProjLats ==
    {Num(d) : d \in {-90, -87, -85, -45, 0, 30, 45, 85, 87, 90, 100}}
      \cup {NaN}

ProjLons == {Num(d) : d \in {-180, -90, 0, 90, 180}}

\* Positions on the plane as fractions of its width and height.
PlaneXs == {Rnd(k, -2) : k \in 0..4}

PlaneYs == {Rnd(k, -3) : k \in {0, 1, 2, 4, 6, 8}}

\* for (let i = 0; i < 10; i++)
MollweidePasses == 10

PInit ==
    /\ \/ /\ pCall \in [op : {"project"},
                        projection : ProjectionIds \cup OtherIds,
                        lat : ProjLats, lon : ProjLons,
                        nx : {Zero}, ny : {Zero}]
       \/ /\ pCall \in [op : {"inverse", "click", "move"},
                        projection : ProjectionIds \cup OtherIds,
                        lat : {Zero}, lon : {Zero},
                        nx : PlaneXs, ny : PlaneYs]
    /\ pPc = "entry"
    /\ pLoc = NoProjLocals
    /\ pRet = NoXY
    /\ pGeo = NoPoint
    /\ pAdded = <<>>
    /\ pShown = MouseCoords(NoPoint)
    /\ VIdle
    /\ GIdle
    /\ ZIdle
    /\ UIdle
    /\ DIdle
    /\ EIdle
    /\ RIdle
    /\ WGS84Init

\* projectPoint, lines 35-41 (and 'let theta = latRad' of the Mollweide
\* case): the angles in radians.
ProjectEnter ==
    /\ pCall.op = "project"
    /\ pPc = "entry"
    /\ pLoc' = [latRad |-> toRadians(pCall.lat), lonRad |-> toRadians(pCall.lon),
                theta |-> toRadians(pCall.lat), i |-> 0]
    /\ pPc' = IF pCall.projection = "mollweide" THEN "newton" ELSE "switch"
    /\ UNCHANGED <<pCall, pRet, pGeo, pAdded, pShown, vVars, gVars, zVars, uVars, dVars, eVars, rVars, WGS84>>

\* projectPoint, lines 106-112: one pass of the Newton loop.
MollweidePass ==
    /\ pPc = "newton"
    /\ pLoc.i < MollweidePasses
    /\ pLoc' = [pLoc EXCEPT !.theta = MollweideStep(pLoc.theta, pLoc.latRad),
                            !.i = pLoc.i + 1]
    /\ UNCHANGED <<pCall, pPc, pRet, pGeo, pAdded, pShown, vVars, gVars, zVars, uVars, dVars, eVars, rVars, WGS84>>

\* projectPoint, lines 44-271: the matching case of the switch and the
\* return; the Mollweide case once its loop has ended.
ProjectReturn ==
    /\ \/ pPc = "switch"
       \/ pPc = "newton" /\ pLoc.i = MollweidePasses
    /\ \E r \in {ProjectOutcome(pCall.lat, pCall.lon, pCall.projection,
                                pLoc.latRad, pLoc.lonRad, pLoc.theta)} :
          /\ pRet' = r.ret
          /\ pPc' = IF r.threw THEN "threw" ELSE "projected"
    /\ UNCHANGED <<pCall, pLoc, pGeo, pAdded, pShown, vVars, gVars, zVars, uVars, dVars, eVars, rVars, WGS84>>

\* inverseProject on the result of projectPoint divided by 100.
Unproject ==
    /\ pPc = "projected"
    /\ pGeo' = inverseProject(fDiv(pRet.x, Num(100)), fDiv(pRet.y, Num(100)),
                              pCall.projection)
    /\ pPc' = "done"
    /\ UNCHANGED <<pCall, pLoc, pRet, pAdded, pShown, vVars, gVars, zVars, uVars, dVars, eVars, rVars, WGS84>>

\* inverseProject, lines 290-315.
InverseProject ==
    /\ pCall.op = "inverse"
    /\ pPc = "entry"
    /\ pGeo' = inverseProject(pCall.nx, pCall.ny, pCall.projection)
    /\ pPc' = "done"
    /\ UNCHANGED <<pCall, pLoc, pRet, pAdded, pShown, vVars, gVars, zVars, uVars, dVars, eVars, rVars, WGS84>>

\* handlePlaneClick (app.js 419-440) with nx = x / rect.width and
\* ny = y / rect.height: the point is appended to the points.
HandlePlaneClick ==
    /\ pCall.op = "click"
    /\ pPc = "entry"
    /\ \E geo \in {PlaneToGeo(pCall.nx, pCall.ny, pCall.projection)} :
          /\ pGeo' = geo
          /\ pAdded' = Append(pAdded, ClickedPoint(geo))
    /\ pPc' = "done"
    /\ UNCHANGED <<pCall, pLoc, pRet, pShown, vVars, gVars, zVars, uVars, dVars, eVars, rVars, WGS84>>

\* handlePlaneMouseMove (app.js 445-464): the coordinates are displayed.
HandlePlaneMouseMove ==
    /\ pCall.op = "move"
    /\ pPc = "entry"
    /\ \E geo \in {PlaneToGeo(pCall.nx, pCall.ny, pCall.projection)} :
          /\ pGeo' = geo
          /\ pShown' = MouseCoords(geo)
    /\ pPc' = "done"
    /\ UNCHANGED <<pCall, pLoc, pRet, pAdded, vVars, gVars, zVars, uVars, dVars, eVars, rVars, WGS84>>

PNext ==
    \/ ProjectEnter
    \/ MollweidePass
    \/ ProjectReturn
    \/ Unproject
    \/ InverseProject
    \/ HandlePlaneClick
    \/ HandlePlaneMouseMove

SpecProjection == PInit /\ [][PNext]_vars
(***************************************************************************)
(* Calls of dmsToDecimal, decimalToDMS and addPoint.                       *)
(***************************************************************************)
\* Values of the fields deg, min and sec: the empty field, a text that is
\* no numeral, numerals with and without sign and fraction, and (for min
\* and sec) the infinite numbers.
DmsDegs ==
    {Text(<<>>), Text(<<"x">>), Text(<<"4", "1">>), Text(<<"-", "7">>),
     Text(<<"2", ".", "5">>)}

DmsMins ==
    {Text(<<>>), Text(<<"x">>), Text(<<"3", "0">>), Text(<<"2", "4">>),
     Number(Infinity)}

DmsSecs ==
    {Text(<<>>), Text(<<"x">>), Text(<<"1", "2", ".", "2">>),
     Text(<<"3", "6">>), Number(fNeg(Infinity))}

\* Values of direction: the four letters of the selects and others.
DmsDirections == {"N", "S", "E", "W", "n", "", "X"}

\* Arguments of decimalToDMS: the multiples of 1/32 up to 90 and a little
\* beyond, the numbers 2^-20 below an integer, and numbers out of the range
\* of a coordinate.
DmsDecimals ==
    {Exact(n, -5) : n \in -2900..2900}
      \cup {Exact(sg * (k * Pow2(20) - 1), -20) : k \in 1..90, sg \in {-1, 1}}
      \cup {Num(n) : n \in {-1000, -180, 180, 1000}}

\* The input fields when addPoint is called in the format 'dms'.
DmsForms ==
    [inputLat : {Text(<<>>)}, inputLon : {Text(<<>>)},
     inputDeg : {Text(<<>>), Text(<<"4", "1">>), Text(<<"9", "1">>)},
     inputMin : {Text(<<>>), Text(<<"2", "4">>)},
     inputSec : {Text(<<>>), Text(<<"1", "2", ".", "2">>)},
     inputNS : {"N", "S"},
     inputDegLon : {Text(<<>>), Text(<<"2">>), Text(<<"1", "8", "1">>)},
     inputMinLon : {Text(<<>>)}, inputSecLon : {Text(<<>>)},
     inputEW : {"E", "W"}]

\* The input fields when addPoint is called in the format 'decimal'.
DecimalForms ==
    [inputLat : {Text(<<>>), Text(<<"4", "1", ".", "5">>),
                 Text(<<"-", "9", "1">>)},
     inputLon : {Text(<<>>), Text(<<"2">>), Text(<<"1", "8", "0">>)},
     inputDeg : {Text(<<>>)}, inputMin : {Text(<<>>)},
     inputSec : {Text(<<>>)}, inputNS : {"N"},
     inputDegLon : {Text(<<>>)}, inputMinLon : {Text(<<>>)},
     inputSecLon : {Text(<<>>)}, inputEW : {"W"}]

\* A call of dmsToDecimal.
DInitToDecimal ==
    /\ dCall \in [op : {"dmsToDecimal"}, deg : DmsDegs, min : DmsMins,
                  sec : DmsSecs, direction : DmsDirections,
                  decimal : {Zero}, coordFormat : {"decimal"},
                  inputs : {EmptyInputs}]
    /\ EIdle

\* A call of decimalToDMS.
DInitToDMS ==
    /\ dCall \in [op : {"decimalToDMS"}, deg : {Text(<<>>)},
                  min : {Text(<<>>)}, sec : {Text(<<>>)},
                  direction : {""}, decimal : DmsDecimals,
                  coordFormat : {"decimal"}, inputs : {EmptyInputs}]
    /\ EIdle

\* A call of addPoint: the component with its fields filled in and no
\* vertex yet.
DInitAddPoint ==
    /\ \/ dCall \in [op : {"addPoint"}, deg : {Text(<<>>)},
                     min : {Text(<<>>)}, sec : {Text(<<>>)},
                     direction : {""}, decimal : {Zero},
                     coordFormat : {"dms"}, inputs : DmsForms]
       \/ dCall \in [op : {"addPoint"}, deg : {Text(<<>>)},
                     min : {Text(<<>>)}, sec : {Text(<<>>)},
                     direction : {""}, decimal : {Zero},
                     coordFormat : {"decimal"}, inputs : DecimalForms]
    /\ coordFormat = dCall.coordFormat
    /\ inputs = dCall.inputs
    /\ points = <<>>
    /\ polygons = <<>>
    /\ polygonMeshes = <<>>
    /\ isDrawing = FALSE

DInit ==
    /\ DInitToDecimal \/ DInitToDMS \/ DInitAddPoint
    /\ dPc = "entry"
    /\ dDecimal = Zero
    /\ dDms = NoDms
    /\ VIdle
    /\ GIdle
    /\ ZIdle
    /\ UIdle
    /\ PIdle
    /\ RIdle
    /\ WGS84Init

\* part_000, lines 76-89: dmsToDecimal.
DmsToDecimal ==
    /\ dPc = "entry"
    /\ dCall.op = "dmsToDecimal"
    /\ dDecimal' = dmsToDecimal(dCall.deg, dCall.min, dCall.sec,
                                dCall.direction)
    /\ dPc' = "done"
    /\ UNCHANGED <<dCall, dDms, vVars, gVars, zVars, uVars, pVars, eVars, rVars, WGS84>>

\* part_000, lines 102-121: decimalToDMS.
DecimalToDMS ==
    /\ dPc = "entry"
    /\ dCall.op = "decimalToDMS"
    /\ dDms' = decimalToDMS(dCall.decimal)
    /\ dPc' = "converted"
    /\ UNCHANGED <<dCall, dDecimal, vVars, gVars, zVars, uVars, pVars, eVars, rVars, WGS84>>

\* The direction that stands for the sign of d.
DirectionOf(d) == IF d.m < 0 THEN "S" ELSE "N"

\* dmsToDecimal on the deg, min and sec decimalToDMS returned, with the
\* direction of the sign of the decimal.
DmsBack ==
    /\ dPc = "converted"
    /\ dDecimal' = dmsToDecimal(Number(dDms.deg), Number(dDms.min),
                                Fixed2(dDms.sec), DirectionOf(dCall.decimal))
    /\ dPc' = "done"
    /\ UNCHANGED <<dCall, dDms, vVars, gVars, zVars, uVars, pVars, eVars, rVars, WGS84>>

\* addPoint (app.js, lines 341-369; script.js, lines 952-966) on the
\* fields and the vertices of the component.
AddPointUpdate(lat, lon) ==
    IF AddPointRejects(lat, lon)
    THEN UNCHANGED eVars
    ELSE /\ points' = Append(points, [lat |-> lat, lon |-> lon])
         /\ inputs' = AddPointClears(coordFormat, inputs)
         /\ isDrawing' = TRUE
         /\ UNCHANGED <<coordFormat, polygons, polygonMeshes>>

\* A call of addPoint.
DmsAddPoint ==
    /\ dPc = "entry"
    /\ dCall.op = "addPoint"
    /\ \E lat \in {AddPointLat(coordFormat, inputs)},
          lon \in {AddPointLon(coordFormat, inputs)} :
          AddPointUpdate(lat, lon)
    /\ dPc' = "done"
    /\ UNCHANGED <<dCall, dDecimal, dDms, vVars, gVars, zVars, uVars, pVars, rVars, WGS84>>

DNext == DmsToDecimal \/ DecimalToDMS \/ DmsBack \/ DmsAddPoint

SpecDMS == DInit /\ [][DNext]_vars
(***************************************************************************)
(* The component App: its handlers on the input fields, the vertices being *)
(* drawn, the saved polygons and their meshes.                             *)
(***************************************************************************)
\* The most vertices drawn at a time and the most polygons saved.
MaxVerts == 3

MaxPolys == 1

\* What the user fills in before pressing the button: nothing; the corner
\* (-90, 180); a latitude out of range; in the format 'dms' nothing,
\* 41 24' 12.2" N 2 10' E, and 91 degrees south.
UiForms ==
    {[coordFormat |-> "decimal", inputs |-> EmptyInputs],
     [coordFormat |-> "decimal",
      inputs |-> [EmptyInputs EXCEPT !.inputLat = Text(<<"-", "9", "0">>),
                                     !.inputLon = Text(<<"1", "8", "0">>)]],
     [coordFormat |-> "decimal",
      inputs |-> [EmptyInputs EXCEPT !.inputLat = Text(<<"9", "1">>),
                                     !.inputLon = Text(<<"0">>)]],
     [coordFormat |-> "dms", inputs |-> EmptyInputs],
     [coordFormat |-> "dms",
      inputs |-> [EmptyInputs EXCEPT !.inputDeg = Text(<<"4", "1">>),
                                     !.inputMin = Text(<<"2", "4">>),
                                     !.inputSec = Text(<<"1", "2", ".", "2">>),
                                     !.inputDegLon = Text(<<"2">>),
                                     !.inputMinLon = Text(<<"1", "0">>),
                                     !.inputEW = "E"]],
     [coordFormat |-> "dms",
      inputs |-> [EmptyInputs EXCEPT !.inputDeg = Text(<<"9", "1">>),
                                     !.inputNS = "S"]]}

\* Where the plane is clicked, as fractions of its width and height: the
\* corner at the bottom right and the centre.
ClickPositions ==
    {[nx |-> Num(1), ny |-> Num(1)], [nx |-> Half, ny |-> Half]}

EInit ==
    /\ EIdle
    /\ VIdle
    /\ GIdle
    /\ ZIdle
    /\ UIdle
    /\ PIdle
    /\ DIdle
    /\ RIdle
    /\ WGS84Init

\* The onChange handlers of the format select and of the input fields
\* (app.js, lines 558 and 584-610): the user fills in the form.
EditInputs ==
    /\ \E f \in UiForms :
          /\ coordFormat' = f.coordFormat
          /\ inputs' = f.inputs
    /\ UNCHANGED <<points, polygons, polygonMeshes, isDrawing>>
    /\ UNCHANGED <<vVars, gVars, zVars, uVars, pVars, dVars, rVars, WGS84>>

\* addPoint (app.js, lines 341-369; script.js, lines 952-966).
AddPoint ==
    /\ Len(points) < MaxVerts
    /\ \E lat \in {AddPointLat(coordFormat, inputs)},
          lon \in {AddPointLon(coordFormat, inputs)} :
          AddPointUpdate(lat, lon)
    /\ UNCHANGED <<vVars, gVars, zVars, uVars, pVars, dVars, rVars, WGS84>>

\* handlePlaneClick (app.js, lines 419-440; script.js, lines 991-1006) with
\* the projection selected at the time.
ClickPlane ==
    /\ Len(points) < MaxVerts
    /\ \E at \in ClickPositions, selectedProjection \in ProjectionIds :
          points' = Append(points,
                           ClickedPoint(PlaneToGeo(at.nx, at.ny,
                                                   selectedProjection)))
    /\ isDrawing' = TRUE
    /\ UNCHANGED <<coordFormat, inputs, polygons, polygonMeshes>>
    /\ UNCHANGED <<vVars, gVars, zVars, uVars, pVars, dVars, rVars, WGS84>>

\* The button of vertex i (app.js, line 633):
\* setPoints(points.filter((_, j) => j !== i)).
DeleteVertex ==
    /\ \E i \in 1..Len(points) : points' = WithoutVertex(points, i)
    /\ UNCHANGED <<coordFormat, inputs, polygons, polygonMeshes, isDrawing>>
    /\ UNCHANGED <<vVars, gVars, zVars, uVars, pVars, dVars, rVars, WGS84>>

\* completePolygon (app.js, lines 374-394; script.js, lines 968-983).  The
\* id and the colour of the polygon are left out; the group of the sphere
\* exists from the mount on.
CompletePolygon ==
    /\ Len(polygons) < MaxPolys
    /\ IF CompleteRefuses(points)
       THEN UNCHANGED eVars
       ELSE /\ polygons' = Append(polygons, [points |-> points])
            /\ polygonMeshes' = polygonMeshes \o createSphericalLines(points)
                                              \o createSphericalFill(points)
            /\ points' = <<>>
            /\ isDrawing' = FALSE
            /\ UNCHANGED <<coordFormat, inputs>>
    /\ UNCHANGED <<vVars, gVars, zVars, uVars, pVars, dVars, rVars, WGS84>>

\* clearCurrent (app.js, lines 399-402; script.js, line 985).
ClearCurrent ==
    /\ points' = <<>>
    /\ isDrawing' = FALSE
    /\ UNCHANGED <<coordFormat, inputs, polygons, polygonMeshes>>
    /\ UNCHANGED <<vVars, gVars, zVars, uVars, pVars, dVars, rVars, WGS84>>

\* clearAll (app.js, lines 407-414; script.js, lines 986-989).
ClearAll ==
    /\ points' = <<>>
    /\ polygons' = <<>>
    /\ isDrawing' = FALSE
    /\ polygonMeshes' = <<>>
    /\ UNCHANGED <<coordFormat, inputs>>
    /\ UNCHANGED <<vVars, gVars, zVars, uVars, pVars, dVars, rVars, WGS84>>

ENext ==
    \/ EditInputs \/ AddPoint \/ ClickPlane \/ DeleteVertex
    \/ CompletePolygon \/ ClearCurrent \/ ClearAll

SpecUI == EInit /\ [][ENext]_vars
(***************************************************************************)
(* The 3D view: the mouse handlers of the canvas, the timers handleMouseUp *)
(* starts and the animation loop (app.js, lines 220-252; script.js, lines  *)
(* 855-886).  Time is counted in quarters of the delay.                    *)
(***************************************************************************)
\* The most timers pending at a time.
MaxTimers == 2

RInit ==
    /\ RIdle
    /\ WGS84Init
    /\ VIdle
    /\ GIdle
    /\ ZIdle
    /\ UIdle
    /\ PIdle
    /\ DIdle
    /\ EIdle

\* handleMouseDown
HandleMouseDown ==
    /\ isDragging' = TRUE
    /\ autoRotate' = FALSE
    /\ frame' = "none"
    /\ UNCHANGED <<timers, sinceRelease>>
    /\ UNCHANGED <<vVars, gVars, zVars, uVars, pVars, dVars, eVars, WGS84>>

\* handleMouseMove: the sphere is turned by the mouse while it is dragged.
HandleMouseMove ==
    /\ frame' = IF isDragging THEN "drag" ELSE "none"
    /\ UNCHANGED <<isDragging, autoRotate, timers, sinceRelease>>
    /\ UNCHANGED <<vVars, gVars, zVars, uVars, pVars, dVars, eVars, WGS84>>

\* handleMouseUp, the listener of 'mouseup' and of 'mouseleave': a timer of
\* 4000 ms is started; none is cancelled.  It is a release when it ends a
\* drag.
HandleMouseUp ==
    /\ Len(timers) < MaxTimers
    /\ isDragging' = FALSE
    /\ timers' = Append(timers, ResumeDelay)
    /\ sinceRelease' = IF isDragging THEN 0 ELSE sinceRelease
    /\ frame' = "none"
    /\ UNCHANGED autoRotate
    /\ UNCHANGED <<vVars, gVars, zVars, uVars, pVars, dVars, eVars, WGS84>>

\* The callback of the oldest timer runs once its delay has passed.
TimerFires ==
    /\ timers # <<>>
    /\ Head(timers) = 0
    /\ autoRotate' = TRUE
    /\ timers' = Tail(timers)
    /\ frame' = "none"
    /\ UNCHANGED <<isDragging, sinceRelease>>
    /\ UNCHANGED <<vVars, gVars, zVars, uVars, pVars, dVars, eVars, WGS84>>

\* t ms less to wait, and none below 0.
AfterWaiting(left, t) == IF left > t THEN left - t ELSE 0

\* t ms more since the release, counted up to the delay.
AfterRelease(since, t) ==
    IF since + t < ResumeDelay THEN since + t ELSE ResumeDelay

\* A quarter of the delay passes.  A callback that is due may still be
\* waiting for its turn.
TimePasses ==
    /\ timers' = [i \in 1..Len(timers) |->
                      AfterWaiting(timers[i], ResumeDelay \div 4)]
    /\ sinceRelease' = AfterRelease(sinceRelease, ResumeDelay \div 4)
    /\ frame' = "none"
    /\ UNCHANGED <<isDragging, autoRotate>>
    /\ UNCHANGED <<vVars, gVars, zVars, uVars, pVars, dVars, eVars, WGS84>>

\* if (autoRotate && !isDragging) sphereGroup.rotation.y += 0.001
AnimateTurns(auto, dragging) == auto /\ ~dragging

\* animate: one frame.
Animate ==
    /\ frame' = IF AnimateTurns(autoRotate, isDragging) THEN "auto"
                ELSE "still"
    /\ UNCHANGED <<isDragging, autoRotate, timers, sinceRelease>>
    /\ UNCHANGED <<vVars, gVars, zVars, uVars, pVars, dVars, eVars, WGS84>>

RNext ==
    \/ HandleMouseDown \/ HandleMouseMove \/ HandleMouseUp
    \/ TimerFires \/ TimePasses \/ Animate

SpecView == RInit /\ [][RNext]_vars
(***************************************************************************)
(* The functions of the library together: any one call of any of them.     *)
(***************************************************************************)
LibraryInit == VInit \/ GInit \/ ZInit \/ UInit \/ PInit \/ DInit

LibraryNext == VNext \/ GNext \/ ZNext \/ UNext \/ PNext \/ DNext

SpecLibrary == LibraryInit /\ [][LibraryNext]_vars

(***************************************************************************)
(* Properties of vincentyDistance.                                         *)
(***************************************************************************)

\* The position of a positive number in the ordered list of the numbers of
\* the format: neighbours differ by one.
fOrd(x) == x.e * Pow2(Prec - 1) + x.m

\* x and y are the same number or positive numbers at most k places apart.
WithinUlps(x, y, k) ==
    \/ x = y
    \/ x.m > 0 /\ y.m > 0 /\ IAbs(fOrd(x) - fOrd(y)) <= k

\* The call has returned.
VDone == vPc = "done"

\* The call has returned after the loop ran out of passes without converging.
VExhausted == VDone /\ vVia = "formula" /\ VNotConverged(vLoc)

\* C1: a call with two equal points returns exactly 0, through the
\* "sinσ === 0" return of the first pass, before sinα = ... / sinσ is
\* evaluated (sinα is still unassigned).
C1_CoincidentReturnsZero ==
    (VDone /\ vArgs.p1 = vArgs.p2) =>
        /\ vRet = Zero
        /\ vVia = "coincident"
        /\ vPasses = 1
        /\ vLoc.sinSig = Zero
        /\ vLoc.sinAlpha = NoLocals.sinAlpha

\* C1 happens: a call with both points at the north pole has returned.
C1_Witness ==
    VDone /\ vArgs.p1 = vArgs.p2 /\ vArgs.p1.lat = Num(90) /\ vVia = "coincident"

\* C2 (state part): the body never runs more than 100 times; the counter
\* starts at 100 and has dropped by one for each pass that did not converge;
\* the loop goes on only after a pass that did not converge and left the
\* counter positive, and stops otherwise.
C2_LoopBound ==
    /\ vPasses <= 100
    /\ vPc = "entry" => vPasses = 0
    /\ vPc = "loop" =>
        /\ vLoc.iterLimit > 0
        /\ vLoc.iterLimit = 100 - vPasses
        /\ vPasses > 0 => VNotConverged(vLoc)
    /\ vPc = "after" =>
        \/ ~VNotConverged(vLoc) /\ vLoc.iterLimit = 100 - (vPasses - 1)
        \/ VNotConverged(vLoc) /\ vLoc.iterLimit = 0 /\ vPasses = 100

\* An upper bound on the steps the call still has to take.
VStepsLeft ==
    CASE vPc = "entry" -> 103
      [] vPc = "loop" -> 2 + vLoc.iterLimit
      [] vPc = "after" -> 1
      [] vPc = "done" -> 0

\* C2: the loop bound holds throughout, and every step of the call lowers a
\* natural number that is 0 only once the call has returned, so the call
\* runs at most 100 passes and ends.
C2_AtMost100PassesAndTerminates ==
    /\ [](C2_LoopBound /\ (VStepsLeft = 0 <=> VDone))
    /\ [][VStepsLeft' < VStepsLeft /\ VStepsLeft' >= 0]_vars

\* C2 happens: a call has returned after exactly 100 passes.
C2_Witness == VDone /\ vPasses = 100 /\ vLoc.iterLimit = 0

\* The locals the first statements of a pass compute from a given λ, up to σ.
VSigmaFrom(s, lam) == VSigma(VCosSigma(VHead([s EXCEPT !.lam = lam])))

\* C3 (amended): when the 100 passes are used up without convergence the call
\* returns through the same final formula as a converged call, with no
\* sentinel; the formula is evaluated on σ, sinσ, cosσ, cos2σm and cos²α of
\* the 100th pass, which come from the λ that entered that pass (λʹ), not
\* from the λ that pass computed last.
C3_SilentExhaustion ==
    VExhausted =>
        /\ vPasses = 100
        /\ vLoc.iterLimit = 0
        /\ vRet = VDistance(vLoc, VU2(vLoc))
        /\ vLoc.sig = VSigmaFrom(vLoc, vLoc.lamPrev).sig
        /\ vLoc.sinSig = VSigmaFrom(vLoc, vLoc.lamPrev).sinSig
        /\ vLoc.cosSig = VSigmaFrom(vLoc, vLoc.lamPrev).cosSig

\* C3 happens: a call that used up its passes has returned.
C3_Witness == VExhausted /\ vPasses = 100

\* C3 as stated: on exhaustion the distance returned is the one of the last λ.
C3_LastLambdaUsed ==
    VExhausted => vRet = VFinalFromLastLambda(vLoc)

\* The distance of the call with the two points exchanged.
VSwapped ==
    vincentyDistance(vArgs.p2.lat, vArgs.p2.lon, vArgs.p1.lat, vArgs.p1.lon)

\* The two points share their latitude or their longitude.
VAligned == vArgs.p1.lat = vArgs.p2.lat \/ vArgs.p1.lon = vArgs.p2.lon

\* C4 as stated: exchanging the points gives the same distance.
C4_Symmetric == VDone => vRet = VSwapped

\* C4 (amended): exchanging the points gives the same distance when they
\* share a latitude or a longitude, and otherwise a distance that differs at
\* most in the last places of the result.
C4_SymmetricUpToRounding ==
    VDone =>
        /\ WithinUlps(vRet, VSwapped, 2)
        /\ VAligned => vRet = VSwapped

\* C4 happens: a call between points of different latitude and longitude
\* has returned a distance equal to that of the exchanged call.
C4_Witness == VDone /\ ~VAligned /\ vVia = "formula" /\ vRet = VSwapped

(***************************************************************************)
(* Properties of the calls on point lists.                                 *)
(***************************************************************************)

\* The call on the point list has returned.
GDone == gPc = "done"

\* The list in the opposite order.
Reversed(pts) == [k \in 1..Len(pts) |-> pts[Len(pts) + 1 - k]]

\* C5: calculateGeodesicArea on fewer than 3 points and calculatePerimeter
\* on fewer than 2 points return 0 without entering their loop and without
\* a call of vincentyDistance; calculateGeodesicArea never calls it.
C5_DegenerateReturnsZero ==
    /\ (gOp = "area" /\ Len(gPts) < 3) \/ (gOp = "perimeter" /\ Len(gPts) < 2) =>
          /\ gPc \in {"entry", "done"}
          /\ gCalls = <<>>
          /\ gI = 0
          /\ gLoc = NoSums
          /\ gRet = Zero
    /\ gOp = "area" => gCalls = <<>>

\* C5 happens: calculateGeodesicArea has returned 0 for a list of 2 points.
C5_Witness == GDone /\ gOp = "area" /\ Len(gPts) = 2 /\ gRet = Zero

\* The sum of |Δλ| over the edges from edge i on, in radians.
RECURSIVE LonSpan(_, _)
LonSpan(pts, i) ==
    IF i < Len(pts)
    THEN fAdd(fAbs(toRadians(fSub(At(pts, (i + 1) % Len(pts)).lon, At(pts, i).lon))),
              LonSpan(pts, i + 1))
    ELSE Zero

\* The rounding allowance for the area of a list: 32 n 2^-p (a^2 / 2) Σ|Δλ|,
\* p the precision of the numbers.
AreaSlack(pts) ==
    fMul(fMul(Rnd(32 * Len(pts), -Prec), LonSpan(pts, 0)),
         fDiv(fMul(WGS84_a, WGS84_a), Num(2)))

\* C6 as stated: the area is not negative and is the same for the list and
\* for its reversal.
C6_SameAreaReversed ==
    (GDone /\ gOp = "area" /\ Len(gPts) >= 3) =>
        /\ fLe(Zero, gRet)
        /\ gRet = calculateGeodesicArea(Reversed(gPts))

\* C6 (amended): the area of a list of 3 or more points is not negative, for
\* the list and for its reversal, and the two areas differ by no more than
\* the rounding allowance.
C6_AreaReversedUpToRounding ==
    (GDone /\ gOp = "area" /\ Len(gPts) >= 3) =>
        /\ fLe(Zero, gRet)
        /\ gRet = calculateGeodesicArea(gPts)
        /\ fLe(Zero, calculateGeodesicArea(Reversed(gPts)))
        /\ fLe(fAbs(fSub(gRet, calculateGeodesicArea(Reversed(gPts)))),
               AreaSlack(gPts))

\* C6 happens: the area of a triangle of three different points, not 0, has
\* been returned.
C6_Witness ==
    /\ GDone /\ gOp = "area" /\ Len(gPts) = 3
    /\ Cardinality({gPts[k] : k \in 1..3}) = 3
    /\ gRet # Zero

\* The distances of the edges k, k + 1, ..., n of the list added to sum, the
\* edge k going from point k - 1 to point k mod n (counted from 0).
RECURSIVE EdgeSum(_, _, _)
EdgeSum(sum, pts, k) ==
    IF k > Len(pts) THEN sum
    ELSE EdgeSum(fAdd(sum, EdgeDistance(pts[k], pts[(k % Len(pts)) + 1])),
                 pts, k + 1)

\* C7: calculatePerimeter on n >= 2 points calls vincentyDistance n times,
\* for the pairs (i, (i + 1) mod n) in order, and returns the sum of these
\* distances; for 2 points that is the distance there plus the distance back.
C7_PerimeterSumsCircularEdges ==
    (GDone /\ gOp = "perimeter" /\ Len(gPts) >= 2) =>
        /\ gCalls = [k \in 1..Len(gPts) |-> <<k - 1, k % Len(gPts)>>]
        /\ gRet = EdgeSum(Zero, gPts, 1)
        /\ Len(gPts) = 2 =>
              gRet = fAdd(fAdd(Zero, EdgeDistance(gPts[1], gPts[2])),
                          EdgeDistance(gPts[2], gPts[1]))

\* C7 happens: the perimeter of two different points has been returned.
C7_Witness ==
    /\ GDone /\ gOp = "perimeter" /\ Len(gPts) = 2
    /\ gPts[1] # gPts[2] /\ Len(gCalls) = 2 /\ gRet # Zero

\* The numbers xs[k], ..., xs[n] added to sum one after the other.
RECURSIVE SumFrom(_, _, _)
SumFrom(sum, xs, k) ==
    IF k > Len(xs) THEN sum ELSE SumFrom(fAdd(sum, xs[k]), xs, k + 1)

Lats(pts) == [k \in 1..Len(pts) |-> pts[k].lat]

Lons(pts) == [k \in 1..Len(pts) |-> pts[k].lon]

Values(xs) == {xs[k] : k \in 1..Len(xs)}

MinOf(xs) == CHOOSE x \in Values(xs) : \A y \in Values(xs) : fLe(x, y)

MaxOf(xs) == CHOOSE x \in Values(xs) : \A y \in Values(xs) : fLe(y, x)

MaxAbsOf(xs) ==
    CHOOSE x \in {fAbs(v) : v \in Values(xs)} : \A y \in Values(xs) : fLe(fAbs(y), x)

\* c lies between the least and the greatest of xs.
Between(c, xs) == fLe(MinOf(xs), c) /\ fLe(c, MaxOf(xs))

\* c lies between the least and the greatest of xs, give or take
\* n 2^(1-p) times the greatest magnitude in xs.
BetweenUpToRounding(c, xs) ==
    /\ fLe(fSub(MinOf(xs), fMul(Rnd(Len(xs), 1 - Prec), MaxAbsOf(xs))), c)
    /\ fLe(c, fAdd(MaxOf(xs), fMul(Rnd(Len(xs), 1 - Prec), MaxAbsOf(xs))))

\* C8 as stated: the mean of a non-empty list lies between the least and the
\* greatest input, for lat and for lon.
C8_MeanBetweenMinAndMax ==
    (GDone /\ gOp = "centroid" /\ Len(gPts) > 0) =>
        /\ Between(gRet.lat, Lats(gPts))
        /\ Between(gRet.lon, Lons(gPts))

\* C8 (amended): for a non-empty list calculateCentroid returns the lats
\* added in list order and divided by n, and the same for the lons; each
\* lies between the least and the greatest input up to rounding; for the
\* empty list it returns {lat: 0, lon: 0}.
C8_CentroidIsMean ==
    (GDone /\ gOp = "centroid") =>
        IF Len(gPts) = 0
        THEN gRet = [lat |-> Zero, lon |-> Zero] /\ gI = 0
        ELSE /\ gRet.lat = fDiv(SumFrom(Zero, Lats(gPts), 1), Num(Len(gPts)))
             /\ gRet.lon = fDiv(SumFrom(Zero, Lons(gPts), 1), Num(Len(gPts)))
             /\ BetweenUpToRounding(gRet.lat, Lats(gPts))
             /\ BetweenUpToRounding(gRet.lon, Lons(gPts))

\* C8 happens: the centroid of three points, not all the same, has been
\* returned.
C8_Witness ==
    /\ GDone /\ gOp = "centroid" /\ Len(gPts) = 3
    /\ gPts[1] # gPts[2]
    /\ gRet.lat # gPts[1].lat

(***************************************************************************)
(* Properties of the azimuth calls.                                        *)
(***************************************************************************)

\* The two points are different and not opposite ends of a diameter.
ZNonDegenerate ==
    /\ zArgs.p1 # zArgs.p2
    /\ ~(/\ zArgs.p1.lat = fNeg(zArgs.p2.lat)
         /\ fAbs(fSub(zArgs.p2.lon, zArgs.p1.lon)) = Num(180))

\* calculateAzimuth has returned.
ZCalculated == zFrom = "calculated" /\ zPc \in {"azimuth", "done"}

\* C9 as stated: for a non-degenerate pair calculateAzimuth returns a value
\* that is at least 0 and less than 360.
C9_AzimuthBelow360 ==
    (ZCalculated /\ ZNonDegenerate) =>
        fLe(Zero, zAzimuth) /\ fLt(zAzimuth, Num(360))

\* n is the integer nearest to 100 m 2^e, the larger of two equally near.
NearestHundredth(n, m, e) ==
    IF e >= 0 THEN n = 100 * m * Pow2(e)
    ELSE IF -e > 2 * Prec + 7 THEN n = 0
    ELSE /\ (2 * n - 1) * Pow2(-e) <= 200 * m
         /\ 200 * m < (2 * n + 1) * Pow2(-e)

\* The quadrant of an azimuth in [0, 360) by the half-open intervals.
QuadrantOf(az) ==
    IF fLt(az, Num(90)) THEN "NE"
    ELSE IF fLt(az, Num(180)) THEN "SE"
    ELSE IF fLt(az, Num(270)) THEN "SW"
    ELSE "NW"

\* The angle az, 180 - az, az - 180 or 360 - az of the quadrant q, exactly,
\* as an integer number of units 2^az.e.
ExactAngle(az, q) ==
    CASE q = "NE" -> az.m
      [] q = "SE" -> 180 * Pow2(-az.e) - az.m
      [] q = "SW" -> az.m - 180 * Pow2(-az.e)
      [] q = "NW" -> 360 * Pow2(-az.e) - az.m

\* C10: for an azimuth in [0, 360) azimuthToRumbo returns the quadrant of the
\* half-open interval the azimuth lies in, with the angle az, 180 - az,
\* az - 180 or 360 - az rounded to hundredths; the angle is within [0, 90];
\* 0 gives NE 0.00, 90 gives SE 90.00, 180 gives SW 0.00, 270 gives NW 90.00.
C10_RumboQuadrants ==
    (zPc = "done" /\ fLe(Zero, zAzimuth) /\ fLt(zAzimuth, Num(360))) =>
        /\ zRumbo.quadrant = QuadrantOf(zAzimuth)
        /\ zRumbo.angle.minus = FALSE
        /\ zRumbo.angle.hundredths \in 0..9000
        /\ NearestHundredth(zRumbo.angle.hundredths,
                            ExactAngle(zAzimuth, QuadrantOf(zAzimuth)), zAzimuth.e)
        /\ zAzimuth = Num(0) =>
              zRumbo.quadrant = "NE" /\ zRumbo.angle.hundredths = 0
        /\ zAzimuth = Num(90) =>
              zRumbo.quadrant = "SE" /\ zRumbo.angle.hundredths = 9000
        /\ zAzimuth = Num(180) =>
              zRumbo.quadrant = "SW" /\ zRumbo.angle.hundredths = 0
        /\ zAzimuth = Num(270) =>
              zRumbo.quadrant = "NW" /\ zRumbo.angle.hundredths = 9000

\* C10 happens: azimuthToRumbo has returned for the azimuth 270.
C10_Witness ==
    zPc = "done" /\ zAzimuth = Num(270) /\ zRumbo.quadrant = "NW"


(***************************************************************************)
(* Properties of latLonToUTM.                                              *)
(***************************************************************************)

\* The call has returned.
UDone == uPc = "done"

\* The longitude of the call is in [-180, 180], the latitude in [-90, 90].
ULonInRange == fLe(Num(-180), uArgs.lon) /\ fLe(uArgs.lon, Num(180))

ULatInRange == fLe(Num(-90), uArgs.lat) /\ fLe(uArgs.lat, Num(90))

\* x is a whole number.
IsWhole(x) == x.e >= 0 \/ x.m % Pow2(-x.e) = 0

\* The floor of (x + 180) / 6 for x = m 2^e with e >= -20, exactly.
ExactSixth(x) ==
    IF x.e >= 0 THEN FloorDiv(x.m * Pow2(x.e) + 180, 6)
    ELSE FloorDiv(x.m + 180 * Pow2(-x.e), 6 * Pow2(-x.e))

\* C11 as stated: for every longitude in [-180, 180], both ends included,
\* the returned zone is the whole number floor((lon + 180) / 6) + 1 and lies
\* in 1..60.
C11_ZoneWithin1To60 ==
    (UDone /\ ULonInRange) =>
        /\ IsWhole(uRet.zone)
        /\ uRet.zone = Num(ExactSixth(uArgs.lon) + 1)
        /\ fLe(Num(1), uRet.zone)
        /\ fLe(uRet.zone, Num(60))

\* C12: the returned hemisphere is 'N' exactly when lat >= 0 and 'S' exactly
\* when lat < 0, and the false northing has been added (northing is the
\* series value plus 10000000) exactly when the hemisphere is 'S'; for lat = 0
\* and lat > 0 the northing is the series value itself.
C12_HemisphereAndFalseNorthing ==
    UDone =>
        /\ uRet.hemisphere = "N" <=> uArgs.lat.m >= 0
        /\ uRet.hemisphere = "S" <=> uArgs.lat.m < 0
        /\ uLoc.added <=> uRet.hemisphere = "S"
        /\ uLoc.northing =
              (IF uRet.hemisphere = "S"
               THEN fAdd(uLoc.northing0, FalseNorthing) ELSE uLoc.northing0)
        /\ uRet.hemisphere = "N" => uLoc.northing = UtmNorthing(uLoc)
        /\ uRet.northing = toFixed2(uLoc.northing)

\* C12 happens: a call on the equator has returned 'N' with nothing added.
C12_Witness ==
    /\ UDone
    /\ uArgs.lat = Zero
    /\ uRet.hemisphere = "N"
    /\ ~uLoc.added
    /\ uLoc.northing = uLoc.northing0

\* The allowance of C13 and C14: sixteen units in the last place of c.
Allowance(c) == fMul(Rnd(1, 4 - Prec), fAbs(c))

Near(x, c) == fLe(fAbs(fSub(x, c)), Allowance(c))

\* C13 as stated: for any lat < 0 the hemisphere is 'S' and the northing is
\* at least 10000000 less a small allowance.
C13_NorthingAtLeastFalseNorthing ==
    (UDone /\ uArgs.lat.m < 0) =>
        /\ uRet.hemisphere = "S"
        /\ fLe(fSub(FalseNorthing, Allowance(FalseNorthing)), uLoc.northing)

\* C13 amended: for any lat in [-90, 0) the hemisphere is 'S' and the
\* northing is 10000000 plus the series value, which is not positive: the
\* northing is at most 10000000.
C13_SouthNorthingAtMostFalseNorthing ==
    (UDone /\ uArgs.lat.m < 0 /\ ULatInRange /\ ULonInRange) =>
        /\ uRet.hemisphere = "S"
        /\ fLe(uLoc.northing0, Zero)
        /\ uLoc.northing = fAdd(uLoc.northing0, FalseNorthing)
        /\ fLe(uLoc.northing, FalseNorthing)
        /\ uRet.northing = toFixed2(uLoc.northing)
        /\ uRet.northing.hundredths <= toFixed2(FalseNorthing).hundredths

\* C13 happens: a call at lat = -45 has returned, its northing about half
\* of the false northing.
C13_Witness ==
    /\ UDone
    /\ uArgs.lat = Num(-45)
    /\ uRet.hemisphere = "S"
    /\ fLt(uLoc.northing, fMul(Rnd(3, -2), FalseNorthing))

\* The call is latLonToUTM(0, 0).
UAtOrigin == uArgs = [lat |-> Zero, lon |-> Zero]

\* C14 as stated: latLonToUTM(0, 0) returns zone 31, hemisphere 'N', an
\* easting near 500000 and a northing near 0.
C14_OriginEastingNear500000 ==
    (UDone /\ UAtOrigin) =>
        /\ uRet.zone = Num(31)
        /\ uRet.hemisphere = "N"
        /\ Near(uLoc.easting, FalseEasting)
        /\ uRet.northing.hundredths = 0

\* C14 amended: latLonToUTM(0, 0) returns zone 31, hemisphere 'N', northing
\* 0.00 and an easting near 166021: the point lies 3 degrees west of the
\* central meridian of zone 31.
C14_OriginEastingNear166021 ==
    (UDone /\ UAtOrigin) =>
        /\ uRet.zone = Num(31)
        /\ uRet.hemisphere = "N"
        /\ uLoc.lonOrigin = Num(3)
        /\ Near(uLoc.easting, Num(166021))
        /\ uRet.easting = toFixed2(uLoc.easting)
        /\ uLoc.northing = Zero
        /\ uRet.northing.hundredths = 0

\* C14 happens: latLonToUTM(0, 0) has returned an easting below 200000.
C14_Witness ==
    UDone /\ UAtOrigin /\ fLt(uLoc.easting, Num(200000)) /\ uRet.zone = Num(31)

\* C25 as stated: for every lon in [-180, 180] the central meridian of the
\* zone used differs from lon by at most 3 degrees, and when lon is the
\* central meridian the easting returned is exactly the false easting,
\* 500000.00.
C25_WithinThreeOfCentralMeridian ==
    (UDone /\ ULonInRange)
        => /\ xLe(fAbs(xSub(uArgs.lon, uLoc.lonOrigin)), Num(3))
           /\ uArgs.lon = uLoc.lonOrigin
                => uRet.easting = toFixed2(FalseEasting)

(***************************************************************************)
(* Properties of projectPoint, inverseProject and the plane handlers.      *)
(***************************************************************************)

\* projectPoint has returned a value.
PProjected == pCall.op = "project" /\ pPc \in {"projected", "done"}

\* The id is none of the five ids with a case of their own.
PUnmatchedId ==
    pCall.projection \notin
        {"mercator", "mollweide", "sinusoidal", "robinson", "lambert"}

\* C15: projectPoint called with an id that is none of 'mercator',
\* 'mollweide', 'sinusoidal', 'robinson', 'lambert' never throws and returns
\* exactly x = 100 (lon + 180) / 360 and y = 100 (90 - lat) / 180, computed as
\* the default case computes them.
C15_UnmatchedIdIsEquirectangular ==
    (pCall.op = "project" /\ PUnmatchedId) =>
        /\ pPc # "threw"
        /\ PProjected =>
              /\ pRet.x = fMul(fDiv(fAdd(pCall.lon, Num(180)), Num(360)),
                               Num(100))
              /\ pRet.y = fMul(fDiv(fSub(Num(90), pCall.lat), Num(180)),
                               Num(100))

\* C15 happens: a call without an id has returned for lat 45, lon -90:
\* x = 25 and y = 25.
C15_Witness ==
    /\ PProjected
    /\ pCall.projection = "undefined"
    /\ pCall.lat = Num(45)
    /\ pCall.lon = Num(-90)
    /\ pRet = [x |-> Num(25), y |-> Num(25)]

\* The call is one of projectPoint with a latitude in [-90, 90], a longitude
\* in [-180, 180] and one of the six ids.
PValidCall ==
    /\ pCall.op = "project"
    /\ pCall.projection \in ProjectionIds
    /\ fLe(Num(-90), pCall.lat) /\ fLe(pCall.lat, Num(90))
    /\ fLe(Num(-180), pCall.lon) /\ fLe(pCall.lon, Num(180))

\* v is a number of [0, 100]; NaN is not.
InPlane(v) == fLe(Zero, v) /\ fLe(v, Num(100))

\* C16 as stated: for every lat in [-90, 90], lon in [-180, 180] and each of
\* the six ids, projectPoint returns x and y that both lie in [0, 100].
C16_ProjectedWithinPlane ==
    (PValidCall /\ PProjected) => (InPlane(pRet.x) /\ InPlane(pRet.y))

\* y of projectPoint(85, lon, 'mercator') and of projectPoint(-85, ...),
\* computed without a clamp:
\* 100 (0.5 - log(tan(PI / 4 + toRadians(85) / 2)) / (2 PI)).
MercatorYOf(lat) ==
    fMul(fSub(Half,
              fDiv(fLog(fTan(fAdd(fDiv(MathPI, Num(4)),
                                  fDiv(toRadians(lat), Num(2))))),
                   fMul(Num(2), MathPI))),
         Num(100))

\* C17: for every lat >= 85 and every lon, projectPoint(lat, lon,
\* 'mercator').y equals the y of lat = 85, for every lat <= -85 the y of
\* lat = -85, and x depends on lon alone: x = 100 (lon + 180) / 360.
C17_MercatorClampsAt85 ==
    (PProjected /\ pCall.projection = "mercator") =>
        /\ fLe(Num(85), pCall.lat) => pRet.y = MercatorYOf(Num(85))
        /\ fLe(pCall.lat, Num(-85)) => pRet.y = MercatorYOf(Num(-85))
        /\ (fLt(Num(-85), pCall.lat) /\ fLt(pCall.lat, Num(85)))
              => pRet.y = MercatorYOf(pCall.lat)
        /\ pRet.x = fMul(fDiv(fAdd(pCall.lon, Num(180)), Num(360)), Num(100))

\* C17 happens: the pole has been projected, to a y inside the plane that is
\* the y of lat = 85 and differs from that of lat = 87 unclamped.
C17_Witness ==
    /\ PProjected
    /\ pCall.projection = "mercator"
    /\ pCall.lat = Num(90)
    /\ pRet.y = MercatorYOf(Num(85))
    /\ pRet.y # MercatorYOf(Num(87))
    /\ InPlane(pRet.y)

\* projectPoint with 'equirectangular' has returned for a point (lat, lon)
\* of numbers and its result divided by 100 has gone through inverseProject.
PEquirectRoundTrip ==
    /\ pCall.op = "project"
    /\ pCall.projection = "equirectangular"
    /\ pPc = "done"
    /\ ~IsNaN(pCall.lat)

\* The two fixed pairs of C18: projectPoint(0, 0, 'equirectangular') is
\* {x: 50, y: 50} and inverseProject(0.5, 0.5, 'equirectangular') is
\* {lat: 0, lon: 0}.
PEquirectCentre ==
    /\ (PProjected /\ pCall.projection = "equirectangular"
          /\ pCall.lat = Zero /\ pCall.lon = Zero)
          => pRet = [x |-> Num(50), y |-> Num(50)]
    /\ (pCall.op = "inverse" /\ pPc = "done"
          /\ pCall.projection = "equirectangular"
          /\ pCall.nx = Half /\ pCall.ny = Half)
          => pGeo = [lat |-> Zero, lon |-> Zero]

\* C18 as stated: the two fixed pairs, and for every lat, lon the forward
\* result divided by 100 and fed into inverseProject gives back (lat, lon).
C18_EquirectRoundTripExact ==
    /\ PEquirectCentre
    /\ PEquirectRoundTrip => pGeo = [lat |-> pCall.lat, lon |-> pCall.lon]

\* The rounding of the round trip: four operations on a value up to 360
\* (180 for the latitude) and two sums, 2^11 (2^10) units of 2^-Prec degrees.
LonSlack == Rnd(1, 11 - Prec)

LatSlack == Rnd(1, 10 - Prec)

\* C18, amended: the two fixed pairs hold exactly, (0, 0) goes round
\* exactly, and for every lat in [-90, 90] and lon in [-180, 180] the round
\* trip gives back the point to within the rounding of its operations.
C18_EquirectRoundTripWithinRounding ==
    /\ PEquirectCentre
    /\ (PEquirectRoundTrip /\ PValidCall) =>
          /\ fLe(fAbs(fSub(pGeo.lat, pCall.lat)), LatSlack)
          /\ fLe(fAbs(fSub(pGeo.lon, pCall.lon)), LonSlack)
          /\ (pCall.lat = Zero /\ pCall.lon = Zero)
                => pGeo = [lat |-> Zero, lon |-> Zero]

\* C18 happens: a round trip has come back next to its point, not on it.
C18_Witness ==
    /\ PEquirectRoundTrip
    /\ PValidCall
    /\ pGeo.lat # pCall.lat
    /\ fLe(fAbs(fSub(pGeo.lat, pCall.lat)), LatSlack)
    /\ pGeo.lon = pCall.lon

\* The equirectangular values of a position: lon = nx 360 - 180 and
\* lat = 90 - ny 180.
PlainGeo(nx, ny) ==
    [lat |-> fSub(Num(90), fMul(ny, Num(180))),
     lon |-> fSub(fMul(nx, Num(360)), Num(180))]

\* The Mercator values of a position: the inverse Mercator latitude clamped
\* to [-85, 85] and the same longitude.
MercatorGeo(nx, ny) ==
    [lat |-> fMax(Num(-85), fMin(Num(85), InverseMercatorRaw(ny))),
     lon |-> fSub(fMul(nx, Num(360)), Num(180))]

\* inverseProject or one of the two handlers has run on a position.
PInverted == pCall.op \in {"inverse", "click", "move"} /\ pPc = "done"

\* The point that came back from the round trip is more than 2 degrees from
\* the projected one, or not a point at all.
RoundTripOff ==
    \/ IsNaN(pGeo.lat)
    \/ IsNaN(pGeo.lon)
    \/ fLt(Num(2), fAbs(fSub(pGeo.lat, pCall.lat)))
    \/ fLt(Num(2), fAbs(fSub(pGeo.lon, pCall.lon)))

\* The point that came back is the projected one, the latitude clamped to
\* [-85, 85] under 'mercator', to within the rounding of the round trip.
RoundTripBack ==
    /\ fLe(fAbs(fSub(pGeo.lat,
                     IF pCall.projection = "mercator"
                     THEN fMax(Num(-85), fMin(Num(85), pCall.lat))
                     ELSE pCall.lat)),
           LatSlack)
    /\ fLe(fAbs(fSub(pGeo.lon, pCall.lon)), LonSlack)

\* C19: inverseProject and the inline code of handlePlaneClick and
\* handlePlaneMouseMove give the same point: for 'mercator' the inverse
\* Mercator latitude clamped to [-85, 85], for every other id the
\* equirectangular values lon = nx 360 - 180, lat = 90 - ny 180; the click
\* adds that point rounded to thousandths and the move displays it.  The
\* inverse undoes projectPoint for 'equirectangular' and 'mercator' and not
\* for the other four ids: away from the equator, the poles and the central
\* meridian (30 <= |lat| <= 87, 90 <= |lon|) their round trip is off by more
\* than 2 degrees.
C19_InverseOnlyForEquirectAndMercator ==
    /\ PInverted =>
          /\ pGeo = (IF pCall.projection = "mercator"
                     THEN MercatorGeo(pCall.nx, pCall.ny)
                     ELSE PlainGeo(pCall.nx, pCall.ny))
          /\ pGeo = inverseProject(pCall.nx, pCall.ny, pCall.projection)
          /\ fLe(Num(-85), pGeo.lat) \/ pCall.projection # "mercator"
          /\ fLe(pGeo.lat, Num(85)) \/ pCall.projection # "mercator"
          /\ pCall.op = "click" => pAdded = <<ClickedPoint(pGeo)>>
          /\ pCall.op = "move" => pShown = MouseCoords(pGeo)
    /\ (PValidCall /\ pPc = "done") =>
          IF pCall.projection \in {"equirectangular", "mercator"}
          THEN RoundTripBack
          ELSE (/\ fLe(Num(30), fAbs(pCall.lat))
                /\ fLe(fAbs(pCall.lat), Num(87))
                /\ fLe(Num(90), fAbs(pCall.lon))) => RoundTripOff

\* C19 happens: a click on the Mollweide plane a quarter in from the top
\* left has added the equirectangular point (45, -90).
C19_Witness ==
    /\ pCall.op = "click"
    /\ pPc = "done"
    /\ pCall.projection = "mollweide"
    /\ pCall.nx = Rnd(1, -2)
    /\ pCall.ny = Rnd(1, -2)
    /\ pGeo = [lat |-> Num(45), lon |-> Num(-90)]
    /\ pAdded = <<[lat |-> Num(45), lon |-> Num(-90)]>>

\* C20 as stated: no core function throws for a number input, in range, out
\* of range or NaN; here for projectPoint under all its ids, inverseProject
\* and the two handlers: no call ends by throwing.
C20_NoCallThrows == pPc # "threw"

\* A call of projectPoint with 'robinson' and a latitude that is a number.
PRobinsonCall ==
    /\ pCall.op = "project"
    /\ pCall.projection = "robinson"
    /\ ~IsNaN(pCall.lat)

\* C24: for every latitude, also 90 and beyond, the clamped idx of the
\* Robinson case is one of 0..17, so that the rows idx and idx + 1 exist in
\* the table of 19 rows; for |lat| <= 90 the interpolation weight t is in
\* [0, 1].
C24_RobinsonIndexInTable ==
    PRobinsonCall
        => /\ IsIndex(RobinsonIdx(fAbs(pCall.lat)))
           /\ IndexOf(RobinsonIdx(fAbs(pCall.lat))) \in 0..17
           /\ Len(robinsonTable) = 19
           /\ RobinsonHasRow(RobinsonIdx(fAbs(pCall.lat)))
           /\ RobinsonHasRow(fAdd(RobinsonIdx(fAbs(pCall.lat)), Num(1)))
           /\ pPc # "threw"
           /\ fLe(fAbs(pCall.lat), Num(90))
                => /\ fLe(Zero, RobinsonT(fAbs(pCall.lat),
                                          RobinsonIdx(fAbs(pCall.lat))))
                   /\ fLe(RobinsonT(fAbs(pCall.lat),
                                    RobinsonIdx(fAbs(pCall.lat))), Num(1))

\* C24 happens: projectPoint(90, lon, 'robinson') has returned; its idx was
\* clamped from 18 to 17 and t is 1.
C24_Witness ==
    /\ PProjected
    /\ pCall.projection = "robinson"
    /\ pCall.lat = Num(90)
    /\ fFloor(fDiv(fAbs(pCall.lat), Num(5))) = Num(18)
    /\ RobinsonIdx(fAbs(pCall.lat)) = Num(17)
    /\ RobinsonT(fAbs(pCall.lat), Num(17)) = Num(1)
    /\ ~IsNaN(pRet.x)

\* A call of projectPoint with 'mollweide' and a point of the valid range.
PMollweideCall == PValidCall /\ pCall.projection = "mollweide"

\* v is a number and no infinity.
IsFinite(v) == ~IsNaN(v) /\ ~IsInf(v)

\* C26 as stated: for every lat in [-90, 90], the poles included, the
\* denominator 2 + 2 cos(2 theta) is not 0 at any of the 10 Newton steps
\* from theta = latRad on, and the x and y returned are finite.
C26_NoNewtonStepDividesByZero ==
    PMollweideCall
        => /\ (pPc = "newton" /\ pLoc.i < MollweidePasses)
                => MollweideDenominator(pLoc.theta) # Zero
           /\ PProjected => (IsFinite(pRet.x) /\ IsFinite(pRet.y))
(***************************************************************************)
(* Claims about dmsToDecimal, decimalToDMS and addPoint.                   *)
(***************************************************************************)
\* A call of dmsToDecimal has returned.
DReturned == dPc = "done" /\ dCall.op = "dmsToDecimal"

\* A call of addPoint has returned.
DAdded == dPc = "done" /\ dCall.op = "addPoint"

\* A call of decimalToDMS has returned.
DConverted == dPc \in {"converted", "done"} /\ dCall.op = "decimalToDMS"

\* The result of decimalToDMS has been converted back.
DRoundTrip == dPc = "done" /\ dCall.op = "decimalToDMS"

\* The number a field stands for: 0 for the empty field and for a text that
\* is no numeral, else the number written in it.
FieldDenotes(v) ==
    CASE v = Text(<<>>) -> Zero
      [] v = Text(<<"x">>) -> Zero
      [] v = Text(<<"4", "1">>) -> Num(41)
      [] v = Text(<<"-", "7">>) -> Num(-7)
      [] v = Text(<<"2", ".", "5">>) -> Rnd(5, -1)
      [] v = Text(<<"3", "0">>) -> Num(30)
      [] v = Text(<<"2", "4">>) -> Num(24)
      [] v = Text(<<"1", "2", ".", "2">>) -> Decimal(122, 10)
      [] v = Text(<<"3", "6">>) -> Num(36)
      [] v.kind = "number" -> v.value

\* |deg| + min/60 + sec/3600 of the numbers the fields of call c stand
\* for, negated for the directions 'S' and 'W' only.
DmsExpected(c) ==
    IF c.direction \in {"S", "W"}
    THEN fNeg(fAdd(fAdd(fAbs(FieldDenotes(c.deg)),
                        fDiv(FieldDenotes(c.min), Num(60))),
                   fDiv(FieldDenotes(c.sec), Num(3600))))
    ELSE fAdd(fAdd(fAbs(FieldDenotes(c.deg)),
                   fDiv(FieldDenotes(c.min), Num(60))),
              fDiv(FieldDenotes(c.sec), Num(3600)))

\* The call c of addPoint was made in the format 'dms' with the six
\* fields empty.
EmptyDmsForm(c) ==
    /\ c.coordFormat = "dms"
    /\ c.inputs.inputDeg = Text(<<>>)
    /\ c.inputs.inputMin = Text(<<>>)
    /\ c.inputs.inputSec = Text(<<>>)
    /\ c.inputs.inputDegLon = Text(<<>>)
    /\ c.inputs.inputMinLon = Text(<<>>)
    /\ c.inputs.inputSecLon = Text(<<>>)

\* addPoint with the empty DMS form has appended the vertex (0, 0).
AddedOrigin ==
    (DAdded /\ EmptyDmsForm(dCall))
        => /\ points = <<[lat |-> Zero, lon |-> Zero]>>
           /\ isDrawing

\* C21 as stated: dmsToDecimal never returns NaN; a field that is no
\* number counts as 0, the result is |deg| + min/60 + sec/3600, negated
\* exactly for 'S' and 'W'; addPoint in the format 'dms' with all fields
\* empty appends the vertex (0, 0).
C21_NeverNaN ==
    /\ DReturned => (~IsNaN(dDecimal) /\ dDecimal = DmsExpected(dCall))
    /\ AddedOrigin

\* Two fields of the call are infinite numbers.
InfiniteFields(c) ==
    /\ c.min.kind = "number" /\ IsInf(c.min.value)
    /\ c.sec.kind = "number" /\ IsInf(c.sec.value)

\* C21, amended: the result is |deg| + min/60 + sec/3600 with 0 for a field
\* that is no number, negated exactly for 'S' and 'W'; it is NaN only when
\* infinite fields cancel, never for fields that are empty, no numerals or
\* finite numerals; addPoint in the format 'dms' with all fields empty
\* appends the vertex (0, 0).
C21_FailSoft ==
    /\ DReturned => /\ dDecimal = DmsExpected(dCall)
                    /\ IsNaN(dDecimal) => InfiniteFields(dCall)
    /\ AddedOrigin

\* C21 happens: a call with a text that is no numeral for deg, an empty
\* min, 36 seconds and the direction 'W' has returned -36/3600.
C21_Witness ==
    /\ DReturned
    /\ dCall.deg = Text(<<"x">>)
    /\ dCall.min = Text(<<>>)
    /\ dCall.sec = Text(<<"3", "6">>)
    /\ dCall.direction = "W"
    /\ dDecimal = fNeg(fDiv(Num(36), Num(3600)))

\* |d| < 90
InsideNinety(d) == ~xLe(Num(90), fAbs(d))

\* 100 |x - y| <= 1
WithinHundredth(x, y) == xLe(xMul(fAbs(xSub(x, y)), Num(100)), Num(1))

\* d is a number of the format the sums and quotients are rounded to.
OfThePrecision(d) == d = Rnd(d.m, d.e)

IsInteger(x) == x.e >= 0 \/ x.m % Pow2(-x.e) = 0

\* C27 as stated: for every finite decimal, deg = floor(|decimal|) is a
\* non-negative integer, min is an integer in 0..59 and the seconds as
\* rendered are >= 0 and below 60.00.
C27_WellFormedTriple ==
    DConverted
        => /\ IsInteger(dDms.deg)
           /\ xLe(dDms.deg, fAbs(dCall.decimal))
           /\ ~xLe(fAdd(dDms.deg, Num(1)), fAbs(dCall.decimal))
           /\ IsInteger(dDms.min)
           /\ xLe(Zero, dDms.min)
           /\ xLe(dDms.min, Num(59))
           /\ ~dDms.sec.minus
           /\ dDms.sec.hundredths < 6000
(***************************************************************************)
(* Claims about the handlers of the component.                             *)
(***************************************************************************)
\* Every saved polygon has at least 3 vertices.
PolygonsHaveThree ==
    \A k \in 1..Len(polygons) : Len(polygons[k].points) >= 3

\* completePolygon changes nothing when fewer than 3 points are drawn, and
\* else appends one polygon with the current vertices and empties the
\* current list.
CompleteStep ==
    CompletePolygon
        => IF Len(points) < 3
           THEN UNCHANGED vars
           ELSE /\ polygons' = Append(polygons, [points |-> points])
                /\ points' = <<>>

\* clearCurrent leaves the saved list as it is.
ClearCurrentStep == ClearCurrent => (polygons' = polygons /\ points' = <<>>)

\* clearAll empties both lists and the saved meshes.
ClearAllStep ==
    ClearAll => (points' = <<>> /\ polygons' = <<>> /\ polygonMeshes' = <<>>)

\* The saved list changes in two ways only: it is emptied, or a polygon of
\* the 3 or more current vertices is appended to it.
SavedListStep ==
    polygons' # polygons
        => \/ polygons' = <<>>
           \/ /\ Len(points) >= 3
              /\ polygons' = Append(polygons, [points |-> points])

VertexInRange(v) ==
    /\ ~IsNaN(v.lat)
    /\ ~IsNaN(v.lon)
    /\ fLe(Num(-90), v.lat) /\ fLe(v.lat, Num(90))
    /\ fLe(Num(-180), v.lon) /\ fLe(v.lon, Num(180))

\* C29: after any sequence of the operations every vertex, of the current
\* list and of the saved polygons, has a latitude in [-90, 90] and a
\* longitude in [-180, 180], neither of them NaN.
C29_VerticesInRange ==
    /\ \A i \in 1..Len(points) : VertexInRange(points[i])
    /\ \A k \in 1..Len(polygons) :
          \A i \in 1..Len(polygons[k].points) :
             VertexInRange(polygons[k].points[i])

\* C29 happens: the corner (-90, 180), typed in and clicked, and the
\* origin of the empty DMS form are saved in a polygon, and the current
\* list holds a click on the same corner of the Mercator plane, at -85.
C29_Witness ==
    /\ Len(polygons) = 1
    /\ polygons[1].points[1] = [lat |-> Num(-90), lon |-> Num(180)]
    /\ polygons[1].points[2] = [lat |-> Zero, lon |-> Zero]
    /\ points = <<[lat |-> Num(-85), lon |-> Num(180)]>>
    /\ coordFormat = "decimal"
    /\ inputs.inputLat = Text(<<"9", "1">>)
(***************************************************************************)
(* Claims about the 3D view.                                               *)
(***************************************************************************)
\* C30: for any interleaving of the mouse events and the timers they start,
\* the animation loop never turns the sphere while a drag is in progress,
\* and after a release it does not turn it again until 4 seconds have
\* passed since the most recent release.
C30_NoAutoRotationBeforeDelay ==
    frame = "auto" => ~isDragging /\ sinceRelease = ResumeDelay

(***************************************************************************)
(* Claims about the WGS84 record.                                          *)
(***************************************************************************)
\* What the record holds as long as it is the record the script defined:
\* whether its numbers are the doubles of its literals, and its three gaps.
StoredAsWritten == IsWGS84AsWritten(WGS84Stored)
StoredGapB == EllipsoidGapB(WGS84Stored)
StoredGapE2 == EllipsoidGapE2(WGS84Stored)
StoredGapEp2 == EllipsoidGapEp2(WGS84Stored)

\* The gaps in digits: 10^-6 (metres) at most for b and not 10^-7, 10^-13
\* at most for e2 and ep2 and not 10^-14.
StoredGapsToTheDigits ==
    /\ GapOfDigits(StoredGapB, 6)
    /\ GapOfDigits(StoredGapE2, 13)
    /\ GapOfDigits(StoredGapEp2, 13)

StoredGapsNone ==
    /\ StoredGapB.over = <<>>
    /\ StoredGapE2.over = <<>>
    /\ StoredGapEp2.over = <<>>

\* C23 as stated: the six stored values satisfy b = a(1 - f),
\* e2 = 1 - (b/a)^2 and ep2 = (a^2 - b^2)/b^2, and no operation ever writes
\* to the record.
C23_EllipsoidInvariant ==
    /\ WGS84 = WGS84Stored
    /\ StoredGapsNone

\* C23, amended: the stored values are the doubles their literals are read
\* as and satisfy the three equalities to the digits of the literals only:
\* b = a(1 - f) within 10^-6 (metres) and not within 10^-7,
\* e2 = 1 - (b/a)^2 and ep2 = (a^2 - b^2)/b^2 within 10^-13 and not within
\* 10^-14; and no operation ever writes to the record.
C23_EllipsoidInvariantToTheDigits ==
    /\ WGS84 = WGS84Stored
    /\ StoredAsWritten
    /\ StoredGapsToTheDigits

\* A call of latLonToUTM, which reads a, e2 and ep2, has returned and the
\* record is as it was, its equalities not exact.
C23_Witness ==
    /\ uPc = "done"
    /\ WGS84 = WGS84Stored
    /\ ~StoredGapsNone

====
